---------------------------- MODULE Spec2Model ----------------------------
(***************************************************************************)
(* A model of the splitter design algorithm of src/main.js (class          *)
(* SplitterAlgorithm): the ratio catalog, the bounded combination search,  *)
(* the battery assignment optimizer and the solution ranker.               *)
(*                                                                         *)
(* Arithmetic.  The program computes with IEEE doubles; the model computes *)
(* with exact rationals.  Every ratio value is a fraction over the common  *)
(* denominator Scale = 6^DefaultDepth, so a ratio value v is held as the   *)
(* integer v * Scale.  A duty cycle is held over that denominator, and *)
(* a power (watts) as watts * Scale.  The tolerances of the code (1e-10,   *)
(* 0.0001, 0.01) are kept as exact comparisons of these rationals.  A      *)
(* battery type is held with its duration d, its consume rate being 1/d    *)
(* (src/main.js:43).                                                       *)
(***************************************************************************)
EXTENDS Integers, Sequences, FiniteSets, TLC

\* ------------------------------------------------------------- bounds
\* Largest maxDepth a caller passes to searchOptimalCombination.
MaxDepth == 1
\* Largest maxDepth a caller passes to generateValidRatios (at least MaxDepth).
MaxCatalogDepth == 3
\* Largest supply rate R a caller passes.
MaxRate == 1
\* Largest number of ratios handed directly to findBestVariableAssignment.
MaxRatios == 2
\* Largest maxDepth a caller passes to generateValidRatios when the ratio
\* values are held by their denominators.
MaxLoopDepth == 11
\* Largest depth of a ratio of the solutions handed to the network builders.
MaxNetDepth == 3
\* Largest n of a direct call of searchForNBatteries.
MaxCount == 2
\* Largest number of ratios of a direct call of buildNetworkTree.
MaxTreeRatios == 10

\* ------------------------------------------------- program constants
\* toFraction / getDepth search a and b in 0..10.
SearchExp == 10
\* The absolute cap on the battery count.
MaxBatteries == 8
\* minBatteries + 3.
ExtraBatteries == 3
\* maxBatteriesFromFuel + 2.
FuelSlack == 2
\* Math.max(D * 0.05, 100): the floor of the excess threshold, in watts.
ExcessFloor == 100
\* n * 10 in the complexity of a candidate.
CountWeight == 10
\* The value getDepth returns for an unmatched ratio.
Infinity == 1000000
\* generateValidRatios(maxDepth = 5): the default depth, which is also the
\* depth of the catalog of the documented scenarios.
DefaultDepth == 5

\* ------------------------------------------------------- arithmetic
RECURSIVE Pow(_, _)
Pow(x, n) == IF n = 0 THEN 1 ELSE x * Pow(x, n - 1)

\* The common denominator of every ratio value of depth <= DefaultDepth.
Scale == Pow(6, DefaultDepth)

Abs(x) == IF x < 0 THEN 0 - x ELSE x
Min2(x, y) == IF x <= y THEN x ELSE y
Max2(x, y) == IF x >= y THEN x ELSE y

\* The largest and the smallest element of a non-empty set of integers.
SetMax(S) == CHOOSE x \in S : \A y \in S : y <= x
SetMin(S) == CHOOSE x \in S : \A y \in S : x <= y

\* Math.ceil(x / y) for x >= 0, y > 0.
CeilDiv(x, y) == (x + y - 1) \div y

\* x / y < 1e-10, for x >= 0 and y >= 1 (1e10 does not fit a machine integer:
\* the quotient is taken in two steps of 1e5).
Below1e10(x, y) == x <= ((y - 1) \div 100000) \div 100000

\* x / y > 1e-10, for x and y >= 1.
Above1e10(x, y) == x > (y \div 100000) \div 100000

RECURSIVE SeqSum(_)
SeqSum(s) == IF s = <<>> THEN 0 ELSE Head(s) + SeqSum(Tail(s))

\* The concatenation of a sequence of sequences.
RECURSIVE Concat(_)
Concat(ss) ==
    IF Len(ss) = 0 THEN <<>>
    ELSE IF Len(ss) = 1 THEN ss[1]
    ELSE \* halved, to keep the recursion shallow
         Concat(SubSeq(ss, 1, Len(ss) \div 2))
             \o Concat(SubSeq(ss, Len(ss) \div 2 + 1, Len(ss)))

Range(s) == {s[i] : i \in 1..Len(s)}

\* ---------------------------------------------------- ratio catalog
\* Math.pow(0.5, a) * Math.pow(1/3, b), over Scale (exact for a + b <=
\* DefaultDepth).
RatioValue(a, b) == Scale \div (Pow(2, a) * Pow(3, b))

\* |Math.pow(0.5, a) * Math.pow(1/3, b) - value| < 1e-10, value held over Scale:
\* |Scale - value * k| / (Scale * k) < 1e-10 with k = 2^a * 3^b.  For
\* k >= 2 * Scale the difference is at least 1/(2 * Scale), far above 1e-10.
Matches(a, b, value) ==
    LET k == Pow(2, a) * Pow(3, b)
    IN  /\ k < 2 * Scale
        /\ Below1e10(Abs(Scale - value * k), Scale * k)

\* The pairs (a, b) the double loop of toFraction / getDepth accepts.
MatchSet(value) ==
    {ab \in (0..SearchExp) \X (0..SearchExp) : Matches(ab[1], ab[2], value)}

\* The first pair of a non-empty set of pairs in loop order: a outer, b inner.
FirstInLoopOrder(pairs) ==
    CHOOSE ab \in pairs :
        \A cd \in pairs : ab[1] < cd[1] \/ (ab[1] = cd[1] /\ ab[2] <= cd[2])

\* toFraction: the denominator of the string "1/den" ("1" is denominator 1);
\* 0 stands for the decimal fallback value.toFixed(6).
toFraction(value) ==
    LET found == MatchSet(value)
    IN  IF value = Scale THEN 1
        ELSE IF found = {} THEN 0
        ELSE LET ab == FirstInLoopOrder(found) IN Pow(2, ab[1]) * Pow(3, ab[2])

getDepth(value) ==
    LET found == MatchSet(value)
    IN  IF value = Scale THEN 0
        ELSE IF found = {} THEN Infinity
        ELSE LET ab == FirstInLoopOrder(found) IN ab[1] + ab[2]

\* The loops with the inner bound b <= maxDepth.
LoopPairsWide(maxDepth) ==
    {ab \in (0..maxDepth) \X (0..maxDepth) : ~(ab[1] = 0 /\ ab[2] = 0)}

\* The exponent pairs the two loops of generateValidRatios visit.
LoopPairs(maxDepth) ==
    {ab \in (0..maxDepth) \X (0..maxDepth) :
        ab[2] <= maxDepth - ab[1] /\ ~(ab[1] = 0 /\ ab[2] = 0)}

\* The Set of values: 1, then every value of the loops.
RatioSet(maxDepth) ==
    {Scale} \cup {RatioValue(ab[1], ab[2]) : ab \in LoopPairs(maxDepth)}

\* Array.from(set).sort((a, b) => b - a): descending.
RECURSIVE SortDesc(_)
SortDesc(S) ==
    IF S = {} THEN <<>>
    ELSE LET m == SetMax(S) IN <<m>> \o SortDesc(S \ {m})

MakeRatio(v) == [value |-> v, fraction |-> toFraction(v), depth |-> getDepth(v)]

generateValidRatios(maxDepth) ==
    LET vals == SortDesc(RatioSet(maxDepth))
    IN  [i \in 1..Len(vals) |-> MakeRatio(vals[i])]

\* ------------------------------------ ratio catalog, by denominators
\* The value Math.pow(0.5, a) * Math.pow(1/3, b) of any a and b is the exact
\* rational 1 / (2^a * 3^b); it is held here as its denominator, which has no
\* common denominator to fit.  The catalog, toFraction and getDepth are
\* computed on denominators as the code computes them on values.
Den(a, b) == Pow(2, a) * Pow(3, b)

\* The cap of a quotient: 10^8, above every denominator 2^a * 3^b of a and b
\* in 0..10 (at most 6^10).
QuotientCap == Pow(10, 8)

\* floor(r * 10^digits / y) for 0 <= r < y, by long division: q and r are
\* the quotient and the remainder so far.  The quotient is capped.
RECURSIVE ShiftDiv(_, _, _, _)
ShiftDiv(q, r, y, digits) ==
    IF digits = 0 THEN q
    ELSE ShiftDiv(Min2(QuotientCap, q * 10 + (r * 10) \div y), (r * 10) % y, y,
                  digits - 1)

\* |Math.pow(0.5, a) * Math.pow(1/3, b) - value| < 1e-10 for value = 1 / den:
\* with k = 2^a * 3^b and d = |den - k|, |1/k - 1/den| < 1e-10 iff
\* d * 1e10 < k * den iff floor(d * 1e10 / den) < k.  As k < 10^8, this needs
\* d * 100 < den, which is tested first.
MatchesExact(a, b, den) ==
    LET k == Den(a, b)
        d == Abs(den - k)
    IN  /\ d <= (den - 1) \div 100
        /\ ShiftDiv(0, d, den, 10) < k

\* The search with a and b in 0..9.
MatchSetExactNarrow(den) ==
    {ab \in (0..(SearchExp - 1)) \X (0..(SearchExp - 1)) :
        MatchesExact(ab[1], ab[2], den)}

\* The pairs (a, b) the double loop of toFraction / getDepth accepts.
MatchSetExact(den) ==
    {ab \in (0..SearchExp) \X (0..SearchExp) : MatchesExact(ab[1], ab[2], den)}

\* toFraction: the denominator of the string "1/den" ("1" is denominator 1);
\* 0 stands for the decimal fallback value.toFixed(6).
toFractionExact(den) ==
    LET found == MatchSetExact(den)
    IN  IF den = 1 THEN 1
        ELSE IF found = {} THEN 0
        ELSE LET ab == FirstInLoopOrder(found) IN Den(ab[1], ab[2])

getDepthExact(den) ==
    LET found == MatchSetExact(den)
    IN  IF den = 1 THEN 0
        ELSE IF found = {} THEN Infinity
        ELSE LET ab == FirstInLoopOrder(found) IN ab[1] + ab[2]

\* The Set of values: 1, then every value of the loops.
DenSet(maxDepth) == {1} \cup {Den(ab[1], ab[2]) : ab \in LoopPairs(maxDepth)}

\* Array.from(set).sort((a, b) => b - a): descending values, ascending
\* denominators.
RECURSIVE SortAsc(_)
SortAsc(S) ==
    IF S = {} THEN <<>>
    ELSE LET m == SetMin(S) IN <<m>> \o SortAsc(S \ {m})

MakeRatioExact(den) ==
    [den |-> den, fraction |-> toFractionExact(den), depth |-> getDepthExact(den)]

generateValidRatiosExact(maxDepth) ==
    LET dens == SortAsc(DenSet(maxDepth))
    IN  [i \in 1..Len(dens) |-> MakeRatioExact(dens[i])]


\* ------------------------------------------------ visualization tree
\* A node of a tree: its type, its declared outlets (0 for a leaf), the
\* ratio fraction it is annotated with (a denominator; 0 when it has none)
\* and its children.  The labels shown are left out.
Node(type, outlets, ratio, children) ==
    [type |-> type, outlets |-> outlets, ratio |-> ratio, children |-> children]

ReturnLeaf == Node("return", 0, 0, <<>>)

BatteryLeaf(fraction) == Node("battery", 0, fraction, <<>>)

\* buildBatteryBranch (src/visualizer.js): the battery node, under
\* Math.min(depth, 3) - 1 two-outlet splitters when depth > 1.
buildBatteryBranch(battery) ==
    LET leaf == BatteryLeaf(battery.ratio.fraction)
        wrap(node) == Node("splitter", 2, 0, <<node, ReturnLeaf>>)
        depth == battery.ratio.depth
    IN  IF depth <= 1 THEN leaf
        ELSE IF Min2(depth, 3) = 2 THEN wrap(leaf)
        ELSE wrap(wrap(leaf))

\* The grouping with every group under a splitter of its own.
GroupsAllWrapped(nodes) ==
    [g \in 1..CeilDiv(Len(nodes), 3) |->
        LET group == SubSeq(nodes, 3 * g - 2, Min2(3 * g, Len(nodes)))
        IN  Node("splitter", Len(group), 0, group)]

\* The loop of lines 123-138: consecutive groups of three nodes, a group of
\* one node kept as it is, a larger group under a splitter.
Groups(nodes) ==
    [g \in 1..CeilDiv(Len(nodes), 3) |->
        LET group == SubSeq(nodes, 3 * g - 2, Min2(3 * g, Len(nodes)))
        IN  IF Len(group) = 1 THEN group[1]
            ELSE Node("splitter", Len(group), 0, group)]

RECURSIVE buildSplitterTree(_)
buildSplitterTree(nodes) ==
    IF Len(nodes) <= 3 THEN Node("splitter", Len(nodes), 0, nodes)
    ELSE LET groups == Groups(nodes)
         IN  IF Len(groups) <= 3
             THEN Node("splitter", Len(groups), 0, groups)
             ELSE buildSplitterTree(groups)

buildVisualizationTree(solution) ==
    LET batteries == solution.batteries
        batteryNodes == [i \in 1..Len(batteries) |->
                            buildBatteryBranch(batteries[i])]
    IN  IF Len(batteries) = 0 THEN Node("main", 0, 0, <<>>)
        ELSE Node("main", 0, 0,
                  <<buildSplitterTree(Append(batteryNodes, ReturnLeaf))>>)

\* ------------------------------------------------ network description
\* constructSplitterNetwork returns an indented text.  The model holds the
\* network the text describes, as a tree of Node: a splitter line with its
\* outlet lines is a splitter node whose children are what the outlets lead
\* to, in outlet order.  The arguments totalFlow, inputFlow and depth of the
\* code only set the indentation or are never read (lines 678, 779).

\* The last pair of a non-empty set of pairs that the loops of
\* findSplitSequence assign to (a, b): the inner loop stops at its first
\* match, the outer loop goes on, so the largest i wins, with its smallest j.
LastAssigned(pairs) ==
    CHOOSE ab \in pairs :
        \A cd \in pairs : ab[1] > cd[1] \/ (ab[1] = cd[1] /\ ab[2] <= cd[2])

\* (a, b) after the loops of lines 782-792; (0, 0) when nothing matches.
SplitExponents(den) ==
    LET found == MatchSetExact(den)
    IN  IF found = {} THEN <<0, 0>> ELSE LastAssigned(found)

\* The sequence with the two-outlet stages first.
findSplitSequenceTwosFirst(den) ==
    LET ab == SplitExponents(den)
    IN  [i \in 1..ab[1] |-> 2] \o [i \in 1..ab[2] |-> 3]

\* findSplitSequence(targetRatio): the outlets of the splitters in order, b
\* of three outlets, then a of two; targetOutlet is 0 for each.
findSplitSequence(den) ==
    LET ab == SplitExponents(den)
    IN  [i \in 1..ab[2] |-> 3] \o [i \in 1..ab[1] |-> 2]

\* constructBranch(ratio, inputFlow, depth): each splitter leads on by its
\* outlet 1 and to the return flow by the others; the battery line carries
\* ratio.fraction.
constructBranch(ratio) ==
    LET RECURSIVE chain(_)
        chain(sequence) ==
            IF sequence = <<>> THEN BatteryLeaf(ratio.fraction)
            ELSE Node("splitter", Head(sequence), 0,
                      <<chain(Tail(sequence))>>
                          \o [i \in 1..(Head(sequence) - 1) |-> ReturnLeaf])
    IN  chain(findSplitSequence(ratio.den))

\* Groups of three ratios, as the visualizer makes them.
perGroupThree(count) == 3

\* Math.ceil(n / 3)
perGroupOf(count) == CeilDiv(count, 3)

\* buildNetworkTree(ratios, totalFlow, depth).
RECURSIVE buildNetworkTree(_)
buildNetworkTree(ratios) ==
    LET count == Len(ratios)
        perGroup == perGroupOf(count)
        groups == [g \in 1..CeilDiv(count, perGroup) |->
                      SubSeq(ratios, (g - 1) * perGroup + 1,
                             Min2(g * perGroup, count))]
    IN  IF count = 0 THEN ReturnLeaf
        ELSE IF count = 1 THEN constructBranch(ratios[1])
        ELSE IF count = 2
        THEN Node("splitter", 3, 0,
                  <<constructBranch(ratios[1]), constructBranch(ratios[2]),
                    ReturnLeaf>>)
        ELSE IF count = 3
        THEN Node("splitter", 3, 0,
                  [i \in 1..3 |-> constructBranch(ratios[i])])
        ELSE Node("splitter", 3, 0,
                  [g \in 1..Len(groups) |-> buildNetworkTree(groups[g])]
                      \o [i \in 1..(3 - Len(groups)) |-> ReturnLeaf])

\* "no splitter network needed"
NoNetwork == Node("none", 0, 0, <<>>)

constructSplitterNetwork(solution) ==
    IF ~solution.success \/ solution.batteryCount = 0 THEN NoNetwork
    ELSE buildNetworkTree([i \in 1..Len(solution.batteries) |->
                              solution.batteries[i].ratio])

\* ------------------------------------------- assignment optimizer
\* Math.min(1, R * ratio.value / battType.consume), over Scale.
DutyCycle(ratio, battType, R) == Min2(Scale, R * ratio.value * battType.duration)

\* The power with no duty cycle.
AssignedPowerFull(ratio, battType, R) == battType.power * Scale

\* battType.power * dutyCycle: watts over Scale.
AssignedPower(ratio, battType, R) == battType.power * DutyCycle(ratio, battType, R)

\* One entry of an assignment (name is part of typeData).
AssignmentEntry(ratio, battType, R) ==
    [ratio     |-> ratio,
     dutyCycle |-> DutyCycle(ratio, battType, R),
     power     |-> AssignedPower(ratio, battType, R),
     typeData  |-> battType]

\* The leaf test with no target: every assignment is accepted.
ReachesAnyPower(currentPower, targetPower) == currentPower >= 0

\* currentPower >= targetPower - 0.01 (currentPower over Scale, targetPower
\* in watts): the deficit, an integer over Scale, is at most Scale / 100.
ReachesTarget(currentPower, targetPower) ==
    targetPower * Scale - currentPower <= Scale \div 100

\* bestResult = null.
NoAssignment == [found |-> FALSE, minExcess |-> Infinity, totalGenerated |-> 0,
                 batteries |-> <<>>]

\* The leaf update with no comparison of excess: the last leaf that reaches
\* the target is kept.
BetterLast(first, later) == IF later.found THEN later ELSE first

\* if (excess < minExcess): the leaf visited later replaces the best so far
\* only when its excess is strictly smaller.
Better(first, later) ==
    IF later.found /\ (~first.found \/ later.minExcess < first.minExcess)
    THEN later ELSE first

\* The recursion assign(index, currentAssignment, currentPower).  Its captured
\* variables minExcess and bestResult are returned by each subtree (the best
\* leaf of the subtree, in visiting order) and folded left to right.
findBestVariableAssignment(ratios, batteryTypes, targetPower, R) ==
    LET RECURSIVE assign(_, _, _), eachType(_, _, _, _)
        assign(index, currentAssignment, currentPower) ==
            IF index = Len(ratios) + 1
            THEN IF ReachesTarget(currentPower, targetPower)
                 THEN [found |-> TRUE,
                       minExcess |-> currentPower - targetPower * Scale,
                       totalGenerated |-> currentPower,
                       batteries |-> currentAssignment]
                 ELSE NoAssignment
            ELSE eachType(1, index, currentAssignment, currentPower)
        eachType(t, index, currentAssignment, currentPower) ==
            IF t > Len(batteryTypes) THEN NoAssignment
            ELSE LET entry == AssignmentEntry(ratios[index], batteryTypes[t], R)
                 IN  Better(assign(index + 1, Append(currentAssignment, entry),
                                   currentPower + entry.power),
                            eachType(t + 1, index, currentAssignment, currentPower))
    IN  assign(1, <<>>, 0)

\* ---------------------------------------------- combination search
\* sum > 1 + 1e-10, sum held over Scale.
ExceedsOne(sum) == sum > Scale /\ Above1e10(sum - Scale, Scale)

RatioSum(ratios) == SeqSum([i \in 1..Len(ratios) |-> ratios[i].value])

DepthSum(ratios) == SeqSum([i \in 1..Len(ratios) |-> ratios[i].depth])

\* The filter that never drops the unit ratio.
UsableWithUnit(r, batteries, R) ==
    LET minDur == SetMin({batteries[i].duration : i \in 1..Len(batteries)})
    IN  \/ R = 0
        \/ r.value = Scale
        \/ r.value * minDur * R <= (Scale * (10000 + minDur * R)) \div 10000

\* r.value <= Math.max(...batteries.map(b => b.consume / R)) + 0.0001.  The
\* largest consume / R is 1 / (R * shortest duration); it is Infinity for R = 0.
Usable(r, batteries, R) ==
    LET minDur == SetMin({batteries[i].duration : i \in 1..Len(batteries)})
    IN  \/ R = 0
        \/ r.value * minDur * R <= (Scale * (10000 + minDur * R)) \div 10000

usableRatios(ratios, batteries, R) ==
    SelectSeq(ratios, LAMBDA r : Usable(r, batteries, R))

\* A candidate solution; id is the identity of the object (its position in
\* the merged candidate list, set when it is merged), type its label.
Candidate(n, currentRatios, assignment, params) ==
    LET totalPower == params.P_base * Scale + assignment.totalGenerated
    IN  [success      |-> TRUE,
         batteryCount |-> n,
         batteries    |-> assignment.batteries,
         totalPower   |-> totalPower,
         excess       |-> totalPower - params.D * Scale,
         totalRatio   |-> RatioSum(currentRatios),
         complexity   |-> n * CountWeight + DepthSum(currentRatios),
         type         |-> "none",
         id           |-> 0]

\* The index passed on were a ratio taken at most once.
NextIndexDistinct(i) == i + 1

\* searchCombinations(i, ...): the ratio taken may be taken again.
NextIndex(i) == i

\* No early return at line 533.
NothingUsableIgnored(usable) == FALSE

\* usableRatios.length === 0
NothingUsable(usable) == Len(usable) = 0

\* The selections searchForNBatteries(n, params) hands to
\* findBestVariableAssignment on the catalog this.validRatios, in the order
\* of the calls (each call of searchCombinations yields the selections that
\* reach line 547 below it).
handedSelections(n, params, catalog) ==
    LET usable == usableRatios(catalog, params.batteries, params.R)
        RECURSIVE searchCombinations(_, _), eachRatio(_, _, _)
        searchCombinations(index, currentRatios) ==
            IF Len(currentRatios) = n
            THEN IF ExceedsOne(RatioSum(currentRatios)) THEN <<>>
                 ELSE <<currentRatios>>
            ELSE IF ExceedsOne(RatioSum(currentRatios)) THEN <<>>
            ELSE eachRatio(index, index, currentRatios)
        eachRatio(i, index, currentRatios) ==
            IF i > Len(usable) THEN <<>>
            ELSE IF ExceedsOne(RatioSum(currentRatios) + usable[i].value)
                 THEN eachRatio(i + 1, index, currentRatios)
                 ELSE searchCombinations(NextIndex(i),
                                         Append(currentRatios, usable[i]))
                          \o eachRatio(i + 1, index, currentRatios)
    IN  IF NothingUsable(usable) THEN <<>> ELSE searchCombinations(1, <<>>)

\* Lines 547-566: the candidate pushed for a selection, if it has an
\* assignment.
pushed(n, currentRatios, params) ==
    LET assignment ==
            findBestVariableAssignment(currentRatios, params.batteries,
                                       params.D - params.P_base, params.R)
    IN  IF assignment.found
        THEN <<Candidate(n, currentRatios, assignment, params)>>
        ELSE <<>>

\* The candidates pushed for the selections, in discovery order.
pushedAll(n, selections, params) ==
    Concat([i \in 1..Len(selections) |-> pushed(n, selections[i], params)])

\* searchForNBatteries(n, params) on the catalog this.validRatios: the
\* candidates in discovery order.
searchForNBatteries(n, params, catalog) ==
    LET Only(S) == CHOOSE x \in S : TRUE
    IN  Only({pushedAll(n, selections, params) :
                 selections \in {handedSelections(n, params, catalog)}})

\* ------------------------------------------------- solution ranker
\* The comparators of the three sorts: (a, b) => a.excess - b.excess < 0,
\* a.complexity - b.complexity < 0, and a.complexity - b.complexity ||
\* a.excess - b.excess < 0.
Before(order, a, b) ==
    CASE order = "excess"     -> a.excess < b.excess
      [] order = "complexity" -> a.complexity < b.complexity
      [] order = "simple"     -> \/ a.complexity < b.complexity
                                 \/ /\ a.complexity = b.complexity
                                    /\ a.excess < b.excess

\* Array.prototype.sort with a comparator is a stable sort: s[i] comes after
\* every element that is before it in the order, and after every earlier
\* element that it is not before.
StableSort(order, s) ==
    LET rank == [i \in 1..Len(s) |->
                    1 + Cardinality({j \in 1..Len(s) :
                            \/ Before(order, s[j], s[i])
                            \/ j < i /\ ~Before(order, s[i], s[j])})]
    IN  [k \in 1..Len(s) |-> s[CHOOSE i \in 1..Len(s) : rank[i] = k]]

\* c.excess <= Math.max(D * 0.05, 100) + 0.01, excess held over Scale.
WithinThreshold(c, D) ==
    c.excess <= (Scale * (Max2(5 * D, 100 * ExcessFloor) + 1)) \div 100

\* The sort of line 457 on the wrong key.
SortedByComplexity(allCandidates) == StableSort("complexity", allCandidates)

\* allCandidates after the in-place sort of line 457.
SortedByExcess(allCandidates) == StableSort("excess", allCandidates)

\* simpleCandidates after its sort (empty when no candidate is within the
\* threshold); sorted is allCandidates after line 457.
SimpleCandidates(sorted, D) ==
    StableSort("simple", SelectSeq(sorted, LAMBDA c : WithinThreshold(c, D)))

\* bestSimple without lines 480-482.
BestSimpleNoSwap(sorted, D) ==
    LET simple == SimpleCandidates(sorted, D)
    IN  IF Len(simple) > 0 THEN simple[1]
        ELSE StableSort("complexity", sorted)[1]

\* bestSimple of lines 469-482; sorted[1] is bestPrecision.
BestSimple(sorted, D) ==
    LET simple == SimpleCandidates(sorted, D)
        first  == IF Len(simple) > 0 THEN simple[1]
                  ELSE StableSort("complexity", sorted)[1]
    IN  IF first.id = sorted[1].id /\ Len(simple) > 1
        THEN simple[2]
        ELSE first

\* Math.abs(cand.excess - bestPrecision.excess) > 1
\*     || cand.batteryCount !== bestPrecision.batteryCount.
Differs(cand, precision) ==
    \/ Abs(cand.excess - precision.excess) > Scale
    \/ cand.batteryCount # precision.batteryCount

\* The scan of a list left in merge order.
BalancedScanMerged(merged, sorted) == merged

\* The list the loop for (const cand of allCandidates) scans: merged is the
\* list in merge order, sorted the same list after line 457.
BalancedScan(merged, sorted) == sorted

\* bestBalanced of lines 491-500, as a sequence of at most one candidate
\* (empty: null).
BestBalanced(scan, precision, simple) ==
    LET pos == {i \in 1..Len(scan) :
                   /\ scan[i].id # precision.id
                   /\ scan[i].id # simple.id
                   /\ Differs(scan[i], precision)}
    IN  IF pos = {} THEN <<>> ELSE <<scan[SetMin(pos)]>>

\* The label an object carries after the three assignments to .type, made in
\* the order precision, simple, balanced (name and desc are set with type).
Labelled(c, precision, simple, balanced) ==
    [c EXCEPT !.type =
        IF balanced # <<>> /\ balanced[1].id = c.id THEN "balanced"
        ELSE IF simple.id = c.id THEN "simple"
        ELSE IF precision.id = c.id THEN "precision"
        ELSE "none"]

\* The list compiled with no test of identity.
CompileAll(precision, simple, balanced) ==
    <<Labelled(precision, precision, simple, balanced)>>
        \o <<Labelled(simple, precision, simple, balanced)>>
        \o (IF balanced # <<>>
            THEN <<Labelled(balanced[1], precision, simple, balanced)>>
            ELSE <<>>)

\* Lines 508-515: the list of solutions returned.
Compile(precision, simple, balanced) ==
    <<Labelled(precision, precision, simple, balanced)>>
        \o (IF simple.id # precision.id
            THEN <<Labelled(simple, precision, simple, balanced)>> ELSE <<>>)
        \o (IF /\ balanced # <<>>
               /\ balanced[1].id # precision.id
               /\ balanced[1].id # simple.id
            THEN <<Labelled(balanced[1], precision, simple, balanced)>>
            ELSE <<>>)

\* Lines 455-515 on the merged candidate list.
\* sorted, simple and balanced range over one value each, so that each is
\* computed once.
Solutions(allCandidates, D) ==
    LET Only(S) == CHOOSE x \in S : TRUE
        picks(sorted, simple) ==
            {Compile(sorted[1], simple, balanced) :
                balanced \in {BestBalanced(BalancedScan(allCandidates, sorted),
                                           sorted[1], simple)}}
        ranked(sorted) ==
            {Only(picks(sorted, simple)) : simple \in {BestSimple(sorted, D)}}
    IN  Only({Only(ranked(sorted)) : sorted \in {SortedByExcess(allCandidates)}})

\* The base result with a success field.
BaseResultWithSuccess(params) ==
    [success      |-> "true",
     baseSolution |-> "true",
     message      |-> "undefined",
     solutions    |-> << [type         |-> "base",
                          batteryCount |-> 0,
                          batteries    |-> <<>>,
                          totalPower   |-> params.P_base * Scale,
                          excess       |-> (params.P_base - params.D) * Scale,
                          complexity   |-> 0] >>]

\* The three values searchOptimalCombination returns.  A field the returned
\* object does not have is "undefined".
BaseResult(params) ==
    [success      |-> "undefined",
     baseSolution |-> "true",
     message      |-> "undefined",
     solutions    |-> << [type         |-> "base",
                          batteryCount |-> 0,
                          batteries    |-> <<>>,
                          totalPower   |-> params.P_base * Scale,
                          excess       |-> (params.P_base - params.D) * Scale,
                          complexity   |-> 0] >>]

\* A success with no solution.
EmptySuccess ==
    [success |-> "true", baseSolution |-> "undefined",
     message |-> "undefined", solutions |-> <<>>]

FailureResult ==
    [success |-> "false", baseSolution |-> "undefined",
     message |-> "no feasible solution", solutions |-> <<>>]

SuccessResult(allCandidates, D) ==
    [success |-> "true", baseSolution |-> "undefined",
     message |-> "undefined", solutions |-> Solutions(allCandidates, D)]

\* Lines 433-437: the range of battery counts searched.
MaxBatteryPower(params) ==
    SetMax({params.batteries[i].power : i \in 1..Len(params.batteries)})

MinBatteries(params) ==
    CeilDiv(params.D - params.P_base, MaxBatteryPower(params))

\* Math.floor(R / minConsume): minConsume is 1 / (longest duration).
MaxBatteriesFromFuel(params) ==
    params.R * SetMax({params.batteries[i].duration : i \in 1..Len(params.batteries)})

SearchLimit(params) ==
    Min2(Min2(MinBatteries(params) + ExtraBatteries,
              MaxBatteriesFromFuel(params) + FuelSlack),
         MaxBatteries)

\* ------------------------------------------------------- inputs
\* The battery types a caller passes: power in watts, duration (consume is
\* 1 / duration); the first is the default catalog entry scaled down.
TypeSet ==
    {[name |-> "A", power |-> 1100, duration |-> 2],
     [name |-> "B", power |-> 600,  duration |-> 1],
     [name |-> "C", power |-> 300,  duration |-> 8]}

\* Non-empty lists of distinct battery types.
BatteryLists ==
    {<<t>> : t \in TypeSet}
        \cup {tu \in TypeSet \X TypeSet : tu[1] # tu[2]}

DemandSet == {0, 100, 550, 1100, 1700, 2200}
BasePowerSet == {0, 100}

\* Validated inputs: D, P_base, R, maxDepth >= 0, at least one battery type.
ParamSet ==
    [D : DemandSet, P_base : BasePowerSet, batteries : BatteryLists,
     R : 0..MaxRate, maxDepth : 0..MaxDepth]

\* The default battery type: 1100 W, consume 0.025 (duration 40).
StandardBattery == [name |-> "S", power |-> 1100, duration |-> 40]

\* The inputs of the two documented scenarios: D = 1100 and D = 550 with
\* P_base = 0, the default battery type, R = 1 and maxDepth = 5.
Scenario(D) ==
    [D |-> D, P_base |-> 0, batteries |-> <<StandardBattery>>, R |-> 1,
     maxDepth |-> DefaultDepth]

ScenarioSet == {Scenario(1100), Scenario(550)}

NoParams == [D |-> 0, P_base |-> 0, batteries |-> <<>>, R |-> 0, maxDepth |-> 0]
NoResult == [success |-> "undefined", baseSolution |-> "undefined",
             message |-> "undefined", solutions |-> <<>>]
NoCall == [ratios |-> <<>>, batteryTypes |-> <<>>, targetPower |-> 0, R |-> 0]
NoArg == <<>>

\* The battery type lists and the target powers (watts) of the direct calls
\* of findBestVariableAssignment.
AssignTypeLists ==
    {bs \in BatteryLists :
        \/ Len(bs) = 1 /\ bs[1].name = "B"
        \/ Len(bs) = 2 /\ bs[1].name = "A" /\ bs[2].name = "B"
        \/ Len(bs) = 2 /\ bs[1].name = "C" /\ bs[2].name = "A"}

AssignTargets == {0, 550, 1700}

\* The ratio lists handed directly to findBestVariableAssignment: up to
\* MaxRatios ratios of the catalog of depth MaxDepth, in any order.
RatioLists ==
    UNION {[1..k -> Range(generateValidRatios(MaxDepth))] : k \in 0..MaxRatios}

\* -------------------------------------------------------- state
VARIABLES
    validRatios,    \* this.validRatios
    pc,             \* "idle", "search" (in the loop of line 442), "returned"
    op,             \* the method last called: "none", "generate", "search",
                    \* "assign", "searchN", ...
    params,         \* the argument of searchOptimalCombination
    n,              \* the loop variable of line 442
    allCandidates,  \* allCandidates, in merge order
    invoked,        \* the n of each searchForNBatteries call made, in order
    generated,      \* the generateValidRatios calls made by the search
    result,         \* the value searchOptimalCombination returned
    assignCall,     \* the arguments of a direct findBestVariableAssignment call
    assignResult,   \* and the value it returned
    callArg,        \* the argument of a direct call of another method
    callResult,     \* and the value it returned
    handed,         \* the selections the latest searchForNBatteries call
                    \* handed to findBestVariableAssignment, in order
    replaced,       \* the search in progress found another catalog stored
                    \* and replaced it
    batteries,      \* the page's battery catalog (let batteries, line 21)
    clock,          \* the latest reading of Date.now()
    currentSolutions,    \* the global currentSolutions; not assigned at first
    activeSolutionIndex, \* the global activeSolutionIndex (from 0)
    networkShown,   \* networkSection.style.display is 'block'
    tabsShown,      \* solutionTabs is displayed
    drawn,          \* the latest call of visualizer.draw: who made it and
                    \* the solution it was given
    event,          \* the latest event of the page, with its inputs
    failed          \* the latest search that calculate ran found no solution

\* The state of the page.
page == <<batteries, clock, currentSolutions, activeSolutionIndex,
          networkShown, tabsShown, drawn, event, failed>>

\* The direct calls of the algorithm and what they returned.
calls == <<pc, op, params, n, allCandidates, invoked, generated, result,
           assignCall, assignResult, callArg, callResult, handed, replaced>>

vars == <<validRatios, pc, op, params, n, allCandidates, invoked, generated,
          result, assignCall, assignResult, callArg, callResult, handed,
          replaced, page>>

\* defaultBatteries: consume is held as a fraction, 0.025 = 25/1000.
defaultBatteries ==
    <<[id |-> 1, name |-> "S", power |-> 1100, consume |-> <<25, 1000>>,
       duration |-> 40, selected |-> TRUE]>>

NoSolution == [type |-> "none"]
NoDraw == [by |-> "none", solution |-> NoSolution]
NoEvent == [name |-> "none", texts |-> <<>>, id |-> 0, acted |-> FALSE,
            params |-> NoParams]

\* new SplitterAlgorithm()
\* The state once the page has loaded the catalog it had saved (line 21).
Loaded(saved) ==
    /\ validRatios = <<>>
    /\ pc = "idle"
    /\ op = "none"
    /\ params = NoParams
    /\ n = 0
    /\ allCandidates = <<>>
    /\ invoked = <<>>
    /\ generated = 0
    /\ result = NoResult
    /\ assignCall = NoCall
    /\ assignResult = NoAssignment
    /\ callArg = NoArg
    /\ callResult = NoArg
    /\ handed = <<>>
    /\ replaced = FALSE
    /\ batteries = saved
    /\ clock = 2
    /\ currentSolutions = <<>>
    /\ activeSolutionIndex = 0
    /\ networkShown = FALSE
    /\ tabsShown = FALSE
    /\ drawn = NoDraw
    /\ event = NoEvent
    /\ failed = FALSE

\* No catalog was saved: the default one.
Init == Loaded(defaultBatteries)

\* generateValidRatios(maxDepth), called by a client.
GenerateValidRatios(maxDepth) ==
    /\ pc = "idle"
    /\ validRatios' = generateValidRatios(maxDepth)
    /\ pc' = "returned"
    /\ op' = "generate"
    /\ params' = [NoParams EXCEPT !.maxDepth = maxDepth]
    /\ UNCHANGED <<n, allCandidates, invoked, generated, result, assignCall,
                   assignResult>>
    /\ UNCHANGED <<callArg, callResult, handed, replaced>>
    /\ UNCHANGED page

\* findBestVariableAssignment(ratios, batteryTypes, targetPower, R), called
\* by a client.
FindBestVariableAssignment(ratios, batteryTypes, targetPower, R) ==
    /\ pc = "idle"
    /\ assignCall' = [ratios |-> ratios, batteryTypes |-> batteryTypes,
                      targetPower |-> targetPower, R |-> R]
    /\ assignResult' =
           findBestVariableAssignment(ratios, batteryTypes, targetPower, R)
    /\ pc' = "returned"
    /\ op' = "assign"
    /\ UNCHANGED <<validRatios, params, n, allCandidates, invoked, generated,
                   result>>
    /\ UNCHANGED <<callArg, callResult, handed, replaced>>
    /\ UNCHANGED page

\* The test P_batt_needed < 0.
NeedsNoBatteryStrict(p) == p.D - p.P_base < 0

\* P_batt_needed <= 0
NeedsNoBattery(p) == p.D - p.P_base <= 0

\* searchOptimalCombination(p) with D <= P_base: lines 411-427.
SearchBase(p) ==
    /\ pc = "idle"
    /\ NeedsNoBattery(p)
    /\ params' = p
    /\ result' = BaseResult(p)
    /\ pc' = "returned"
    /\ op' = "search"
    /\ UNCHANGED <<validRatios, n, allCandidates, invoked, generated,
                   assignCall, assignResult>>
    /\ UNCHANGED <<callArg, callResult, handed, replaced>>
    /\ UNCHANGED page

\* The parameters of the direct calls of searchForNBatteries, which reads
\* D, P_base, batteries and R.
DirectParams ==
    {p \in ParamSet : p.D = 1100 /\ p.P_base = 0 /\ p.maxDepth = 0}

\* searchForNBatteries(k, p), called by a client, on the stored catalog.
SearchForNBatteries(k, p) ==
    /\ pc = "idle"
    /\ params' = p
    /\ invoked' = <<k>>
    /\ handed' = handedSelections(k, p, validRatios)
    /\ callArg' = k
    /\ callResult' = searchForNBatteries(k, p, validRatios)
    /\ pc' = "returned"
    /\ op' = "searchN"
    /\ UNCHANGED <<validRatios, n, allCandidates, generated, result,
                   assignCall, assignResult, replaced>>
    /\ UNCHANGED page

\* The catalog of a search that generated one only when none is stored.
catalogKept(stored, maxDepth) ==
    IF stored = <<>> THEN generateValidRatios(maxDepth) ELSE stored

\* Line 430, this.generateValidRatios(maxDepth): the catalog the search
\* works on, whatever catalog is stored.
catalogForSearch(stored, maxDepth) == generateValidRatios(maxDepth)

\* searchOptimalCombination(p) with D > P_base, up to the loop: lines 429-439.
SearchBegin(p) ==
    /\ pc = "idle"
    /\ ~NeedsNoBattery(p)
    /\ params' = p
    /\ validRatios' = catalogForSearch(validRatios, p.maxDepth)
    /\ generated' = generated + 1
    /\ n' = MinBatteries(p)
    /\ allCandidates' = <<>>
    /\ pc' = "search"
    /\ op' = "search"
    /\ UNCHANGED <<invoked, result, assignCall, assignResult>>
    /\ replaced' = (validRatios # <<>> /\ validRatios # validRatios')
    /\ UNCHANGED <<callArg, callResult, handed>>
    /\ UNCHANGED page

\* candidates merged into allCandidates: each object gets its identity.
Merge(all, candidates) ==
    all \o [i \in 1..Len(candidates) |->
                [candidates[i] EXCEPT !.id = Len(all) + i]]

\* The loop test n < searchLimit.
LoopContinuesStrict(k, p) == k < SearchLimit(p)

\* n <= searchLimit
LoopContinues(k, p) == k <= SearchLimit(p)

\* One iteration of the loop of lines 442-445.
SearchStep ==
    /\ pc = "search"
    /\ LoopContinues(n, params)
    /\ \E selections \in {handedSelections(n, params, validRatios)} :
           /\ handed' = selections
           /\ allCandidates' =
                  Merge(allCandidates, pushedAll(n, selections, params))
    /\ invoked' = Append(invoked, n)
    /\ n' = n + 1
    /\ UNCHANGED <<validRatios, pc, op, params, generated, result, assignCall,
                   assignResult>>
    /\ UNCHANGED <<callArg, callResult, replaced>>
    /\ UNCHANGED page

\* The loop is over and found nothing: lines 447-453.
SearchFail ==
    /\ pc = "search"
    /\ ~LoopContinues(n, params)
    /\ Len(allCandidates) = 0
    /\ result' = FailureResult
    /\ pc' = "returned"
    /\ UNCHANGED <<validRatios, op, params, n, allCandidates, invoked,
                   generated, assignCall, assignResult>>
    /\ UNCHANGED <<callArg, callResult, handed, replaced>>
    /\ UNCHANGED page

\* The loop is over and found candidates: lines 455-520.
SearchRank ==
    /\ pc = "search"
    /\ ~LoopContinues(n, params)
    /\ Len(allCandidates) > 0
    /\ result' = SuccessResult(allCandidates, params.D)
    /\ pc' = "returned"
    /\ UNCHANGED <<validRatios, op, params, n, allCandidates, invoked,
                   generated, assignCall, assignResult>>
    /\ UNCHANGED <<callArg, callResult, handed, replaced>>
    /\ UNCHANGED page

\* The client drops what the call returned; this.validRatios stays.
Return ==
    /\ pc = "returned"
    /\ pc' = "idle"
    /\ op' = "none"
    /\ params' = NoParams
    /\ n' = 0
    /\ allCandidates' = <<>>
    /\ invoked' = <<>>
    /\ generated' = 0
    /\ result' = NoResult
    /\ assignCall' = NoCall
    /\ assignResult' = NoAssignment
    /\ callArg' = NoArg
    /\ callResult' = NoArg
    /\ handed' = <<>>
    /\ replaced' = FALSE
    /\ UNCHANGED validRatios
    /\ UNCHANGED page

\* The ratio values of the direct calls of toFraction and getDepth, as
\* denominators: every 2^-a * 3^-b with a + b <= MaxLoopDepth.
ExactValues == DenSet(MaxLoopDepth)

\* generateValidRatios(maxDepth), called by a client; the catalog is stored
\* with its values as denominators.
GenerateValidRatiosExact(maxDepth) ==
    /\ pc = "idle"
    /\ validRatios' = generateValidRatiosExact(maxDepth)
    /\ pc' = "returned"
    /\ op' = "generate"
    /\ params' = [NoParams EXCEPT !.maxDepth = maxDepth]
    /\ UNCHANGED <<n, allCandidates, invoked, generated, result, assignCall,
                   assignResult, callArg, callResult, handed, replaced>>
    /\ UNCHANGED page

\* toFraction(1 / den), called by a client.
ToFraction(den) ==
    /\ pc = "idle"
    /\ callArg' = den
    /\ callResult' = toFractionExact(den)
    /\ pc' = "returned"
    /\ op' = "toFraction"
    /\ UNCHANGED <<validRatios, params, n, allCandidates, invoked, generated,
                   result, assignCall, assignResult, handed, replaced>>
    /\ UNCHANGED page

\* getDepth(1 / den), called by a client.
GetDepth(den) ==
    /\ pc = "idle"
    /\ callArg' = den
    /\ callResult' = getDepthExact(den)
    /\ pc' = "returned"
    /\ op' = "getDepth"
    /\ UNCHANGED <<validRatios, params, n, allCandidates, invoked, generated,
                   result, assignCall, assignResult, handed, replaced>>
    /\ UNCHANGED page

\* The ratios of the solutions handed to the network builders: the catalog
\* of depth MaxNetDepth.
NetRatios == generateValidRatiosExact(MaxNetDepth)

\* k ratios of the catalog: from position s on, every step-th one, cyclically.
RatioRun(catalog, k, s, step) ==
    [i \in 1..k |-> catalog[((s - 1 + (i - 1) * step) % Len(catalog)) + 1]]

\* The ratios sum to at most 1 (each is a multiple of 6^-MaxNetDepth).
FlowFits(ratios) ==
    SeqSum([i \in 1..Len(ratios) |-> Pow(6, MaxNetDepth) \div ratios[i].den])
        <= Pow(6, MaxNetDepth)

\* A solution of the given ratios, as the builders read it: batteryCount,
\* and of each battery the name and the ratio.
NetSolution(ratios) ==
    [success      |-> TRUE,
     batteryCount |-> Len(ratios),
     batteries    |-> [i \in 1..Len(ratios) |-> [name |-> "B", ratio |-> ratios[i]]]]

\* Solutions of 1 to 8 batteries of NetRatios whose flow fits.
NetSolutions ==
    UNION {{NetSolution(RatioRun(catalog, ks[1], ks[2], ks[3])) :
               ks \in {x \in (1..MaxBatteries) \X (1..Len(catalog)) \X (0..1) :
                          FlowFits(RatioRun(catalog, x[1], x[2], x[3]))}} :
           catalog \in {NetRatios}}

\* visualizer.draw(solution) up to the tree: buildVisualizationTree(solution).
BuildVisualizationTree(solution) ==
    /\ pc = "idle"
    /\ callArg' = solution
    /\ callResult' = buildVisualizationTree(solution)
    /\ pc' = "returned"
    /\ op' = "visualize"
    /\ UNCHANGED <<validRatios, params, n, allCandidates, invoked, generated,
                   result, assignCall, assignResult, handed, replaced>>
    /\ UNCHANGED page

\* The base solution, which has no success field and no battery.
NoBatterySolution == [success |-> FALSE, batteryCount |-> 0, batteries |-> <<>>]

\* constructSplitterNetwork(solution), called by displaySolution.
ConstructSplitterNetwork(solution) ==
    /\ pc = "idle"
    /\ callArg' = solution
    /\ callResult' = constructSplitterNetwork(solution)
    /\ pc' = "returned"
    /\ op' = "network"
    /\ UNCHANGED <<validRatios, params, n, allCandidates, invoked, generated,
                   result, assignCall, assignResult, handed, replaced>>
    /\ UNCHANGED page

\* The ratios of the direct calls of constructBranch: 2^-a * 3^-b for a and b
\* in 0..10.
BranchRatios ==
    {MakeRatioExact(Den(ab[1], ab[2])) : ab \in (0..SearchExp) \X (0..SearchExp)}

\* constructBranch(ratio, inputFlow, depth), called by a client.
ConstructBranch(ratio) ==
    /\ pc = "idle"
    /\ callArg' = ratio
    /\ callResult' = constructBranch(ratio)
    /\ pc' = "returned"
    /\ op' = "branch"
    /\ UNCHANGED <<validRatios, params, n, allCandidates, invoked, generated,
                   result, assignCall, assignResult, handed, replaced>>
    /\ UNCHANGED page

Next ==
    \/ \E d \in 0..MaxCatalogDepth : GenerateValidRatios(d)
    \/ \E rs \in RatioLists, bs \in AssignTypeLists,
          t \in AssignTargets, r \in 0..MaxRate :
           FindBestVariableAssignment(rs, bs, t, r)
    \/ \E p \in ParamSet \cup ScenarioSet : SearchBase(p)
    \/ \E p \in ParamSet \cup ScenarioSet : SearchBegin(p)
    \/ \E k \in 0..MaxCount, p \in DirectParams : SearchForNBatteries(k, p)
    \/ SearchStep
    \/ SearchFail
    \/ SearchRank
    \/ Return

Spec == Init /\ [][Next]_vars

\* The catalog and the methods that take ratios, on ratio values held by
\* their denominators.
\* The ratio lists of the direct calls of buildNetworkTree: runs of 0 to
\* MaxTreeRatios ratios of the catalog.
TreeRatioLists ==
    UNION {{RatioRun(catalog, ks[1], ks[2], ks[3]) :
               ks \in (0..MaxTreeRatios) \X (1..Len(catalog)) \X (0..1)} :
           catalog \in {NetRatios}}

\* buildNetworkTree(ratios, totalFlow, depth), called by a client.
BuildNetworkTree(ratios) ==
    /\ pc = "idle"
    /\ callArg' = ratios
    /\ callResult' = buildNetworkTree(ratios)
    /\ pc' = "returned"
    /\ op' = "tree"
    /\ UNCHANGED <<validRatios, params, n, allCandidates, invoked, generated,
                   result, assignCall, assignResult, handed, replaced>>
    /\ UNCHANGED page

\* displaySolution(solution, params): the network text is built by
\* constructSplitterNetwork and the tree drawn by visualizer.draw for the
\* same solution.
DisplaySolution(solution) ==
    /\ pc = "idle"
    /\ callArg' = solution
    /\ callResult' = [network |-> constructSplitterNetwork(solution),
                      tree    |-> buildVisualizationTree(solution)]
    /\ pc' = "returned"
    /\ op' = "display"
    /\ UNCHANGED <<validRatios, params, n, allCandidates, invoked, generated,
                   result, assignCall, assignResult, handed, replaced>>
    /\ UNCHANGED page

NextExact ==
    \/ \E d \in 0..MaxLoopDepth : GenerateValidRatiosExact(d)
    \/ \E den \in ExactValues : ToFraction(den)
    \/ \E den \in ExactValues : GetDepth(den)
    \/ \E sol \in NetSolutions : BuildVisualizationTree(sol)
    \/ \E sol \in NetSolutions \cup {NoBatterySolution} :
           ConstructSplitterNetwork(sol)
    \/ \E r \in BranchRatios : ConstructBranch(r)
    \/ \E rs \in TreeRatioLists : BuildNetworkTree(rs)
    \/ \E sol \in NetSolutions : DisplaySolution(sol)
    \/ Return

ExactSpec == Init /\ [][NextExact]_vars

\* ------------------------------------------------------ properties
\* A search call has returned.
SearchReturned == pc = "returned" /\ op = "search"

\* The search went through the loop (D > P_base) and returned.
FullSearchReturned == SearchReturned /\ params.D > params.P_base

\* The search returned ranked candidates.
Ranked == FullSearchReturned /\ result.success = "true"

\* The sum of the ratio values of a solution's assignments, over Scale.
AssignedRatioSum(sol) ==
    SeqSum([i \in 1..Len(sol.batteries) |-> sol.batteries[i].ratio.value])

\* C1: every solution searchOptimalCombination returns has a ratio sum
\* <= 1 + 1e-9 and a total power >= D - 0.01.
C1_FlowAndPower ==
    SearchReturned =>
        \A i \in 1..Len(result.solutions) :
            LET sol == result.solutions[i]
            IN  /\ AssignedRatioSum(sol) - Scale <= (Scale \div 1000) \div 1000000
                /\ params.D * Scale - sol.totalPower <= Scale \div 100

\* A returned solution of several batteries, one of them fuel-limited (duty
\* cycle below 1), whose ratios use the whole flow.
C1_Witness ==
    /\ Ranked
    /\ \E i \in 1..Len(result.solutions) :
           LET sol == result.solutions[i]
           IN  /\ sol.batteryCount >= 2
               /\ AssignedRatioSum(sol) = Scale
               /\ \E j \in 1..Len(sol.batteries) : sol.batteries[j].dutyCycle < Scale

\* The power of the assignment f (f[i]: the index of the type given to ratio
\* i) of a direct findBestVariableAssignment call, over Scale.
CallPower(f) ==
    SeqSum([i \in 1..Len(assignCall.ratios) |->
               LET t == assignCall.batteryTypes[f[i]]
                   fed == assignCall.R * assignCall.ratios[i].value * t.duration
               IN  t.power * (IF fed < Scale THEN fed ELSE Scale)])

\* The assignments of the call that reach targetPower - 0.01.
CallFeasible ==
    {f \in [1..Len(assignCall.ratios) -> 1..Len(assignCall.batteryTypes)] :
        assignCall.targetPower * Scale - CallPower(f) <= Scale \div 100}

AssignReturned == pc = "returned" /\ op = "assign"

\* C2: findBestVariableAssignment returns null exactly when no assignment
\* reaches targetPower - 0.01; otherwise its result has one entry per ratio,
\* in order, and the minimum total power of all assignments that reach it.
C2_BestAssignment ==
    AssignReturned =>
        /\ assignResult.found <=> CallFeasible # {}
        /\ assignResult.found =>
            /\ Len(assignResult.batteries) = Len(assignCall.ratios)
            /\ \A i \in 1..Len(assignCall.ratios) :
                   assignResult.batteries[i].ratio = assignCall.ratios[i]
            /\ \E f \in CallFeasible :
                   /\ CallPower(f) = assignResult.totalGenerated
                   /\ \A i \in 1..Len(assignCall.ratios) :
                          assignResult.batteries[i].typeData
                              = assignCall.batteryTypes[f[i]]
            /\ \A f \in CallFeasible : assignResult.totalGenerated <= CallPower(f)

\* A call on two ratios and two types where several assignments reach the
\* target and the one returned is not the first of them.
C2_Witness ==
    /\ AssignReturned
    /\ assignResult.found
    /\ Len(assignCall.ratios) = 2
    /\ Cardinality(CallFeasible) >= 2
    /\ \E f \in CallFeasible : CallPower(f) > assignResult.totalGenerated
    /\ assignResult.batteries[1].typeData # assignCall.batteryTypes[1]

\* A call where no assignment reaches the target.
C2_WitnessNull ==
    AssignReturned /\ ~assignResult.found /\ Len(assignCall.ratios) = 2

\* C3: the first solution returned has the minimum excess of all candidates
\* and, among the candidates of that excess, was found first.
C3_PrecisionFirst ==
    Ranked =>
        LET first == result.solutions[1]
        IN  /\ \E i \in 1..Len(allCandidates) : allCandidates[i].id = first.id
            /\ allCandidates[first.id].excess = first.excess
            /\ \A i \in 1..Len(allCandidates) :
                   \/ first.excess < allCandidates[i].excess
                   \/ /\ first.excess = allCandidates[i].excess
                      /\ first.id <= allCandidates[i].id

\* The minimum-excess candidate is not the first one found, and it ties on
\* excess with a later candidate.
C3_Witness ==
    /\ Ranked
    /\ result.solutions[1].id > 1
    /\ \E i \in 1..Len(allCandidates) :
           /\ allCandidates[i].id > result.solutions[1].id
           /\ allCandidates[i].excess = result.solutions[1].excess

\* The candidates within the excess budget max(D * 0.05, 100) + 0.01.
Qualifying ==
    {i \in 1..Len(allCandidates) :
        allCandidates[i].excess
            <= (Scale * ((IF 5 * params.D > 10000 THEN 5 * params.D ELSE 10000) + 1))
                   \div 100}

\* The positions in the returned list of the solutions labelled type.
LabelledAs(type) ==
    {i \in 1..Len(result.solutions) : result.solutions[i].type = type}

\* The candidate the ranker picked as Simple: the one labelled "simple".
SimplePick == result.solutions[CHOOSE i \in LabelledAs("simple") : TRUE]

\* Candidate a is not after candidate b in the order (complexity, excess).
SimplerOrEqual(a, b) ==
    \/ a.complexity < b.complexity
    \/ a.complexity = b.complexity /\ a.excess <= b.excess

\* C4: the Simple pick is the minimum-complexity candidate within the
\* excess budget (ties: smaller excess), or the minimum-complexity candidate
\* of all when none is within it; when it would be the Precision pick and
\* another candidate qualifies, it is the next in that order, so the two
\* picks differ whenever two or more candidates qualify.
C4_SimplePick ==
    Ranked =>
        LET precision == result.solutions[1].id
            others    == Qualifying \ {precision}
        IN  /\ Cardinality(LabelledAs("simple")) = 1
            /\ allCandidates[SimplePick.id].complexity = SimplePick.complexity
            /\ allCandidates[SimplePick.id].excess = SimplePick.excess
            /\ Qualifying = {} =>
                   \A i \in 1..Len(allCandidates) :
                       SimplePick.complexity <= allCandidates[i].complexity
            /\ Qualifying = {precision} => SimplePick.id = precision
            /\ Cardinality(Qualifying) >= 2 =>
                   /\ SimplePick.id \in others
                   /\ \A i \in others : SimplerOrEqual(SimplePick, allCandidates[i])

\* The Precision pick has the least complexity of two or more qualifying
\* candidates, and the Simple pick returned is another candidate.
C4_Witness ==
    /\ Ranked
    /\ Cardinality(Qualifying) >= 2
    /\ \A i \in Qualifying :
           SimplerOrEqual(result.solutions[1], allCandidates[i])
    /\ SimplePick.id # result.solutions[1].id

\* No candidate is within the budget: the Simple pick is the fallback.
C4_WitnessFallback ==
    /\ Ranked
    /\ Qualifying = {}
    /\ Len(allCandidates) >= 2

\* The candidates the Balanced pick is taken from: neither the Precision nor
\* the Simple pick, and differing from Precision by more than 1 in excess or
\* in the battery count.
BalancedEligible ==
    {i \in 1..Len(allCandidates) :
        /\ i # result.solutions[1].id
        /\ i # SimplePick.id
        /\ \/ allCandidates[i].excess - result.solutions[1].excess > Scale
           \/ result.solutions[1].excess - allCandidates[i].excess > Scale
           \/ allCandidates[i].batteryCount # result.solutions[1].batteryCount}

BalancedPick == result.solutions[CHOOSE i \in LabelledAs("balanced") : TRUE]

\* C5 as claimed: the Balanced pick is the first eligible candidate in merge
\* order, and there is none when no candidate is eligible.
C5_BalancedInMergeOrder ==
    Ranked =>
        /\ BalancedEligible = {} <=> LabelledAs("balanced") = {}
        /\ BalancedEligible # {} =>
               /\ BalancedPick.id \in BalancedEligible
               /\ \A i \in BalancedEligible : BalancedPick.id <= i

\* C5 as amended: the Balanced pick is the first eligible candidate in
\* ascending order of excess (candidates of equal excess in merge order), and
\* there is none when no candidate is eligible.
C5_BalancedInExcessOrder ==
    Ranked =>
        /\ BalancedEligible = {} <=> LabelledAs("balanced") = {}
        /\ BalancedEligible # {} =>
               /\ Cardinality(LabelledAs("balanced")) = 1
               /\ BalancedPick.id \in BalancedEligible
               /\ \A i \in BalancedEligible :
                      \/ BalancedPick.excess < allCandidates[i].excess
                      \/ /\ BalancedPick.excess = allCandidates[i].excess
                         /\ BalancedPick.id <= i

\* A Balanced pick is returned that an eligible candidate precedes in merge
\* order.
C5_Witness ==
    /\ Ranked
    /\ LabelledAs("balanced") # {}
    /\ \E i \in BalancedEligible : i < BalancedPick.id

\* No candidate is eligible and no Balanced solution is returned.
C5_WitnessNone ==
    /\ Ranked
    /\ BalancedEligible = {}
    /\ LabelledAs("balanced") = {}
    /\ Len(allCandidates) >= 2

\* C6: a returned list has at most three solutions, which are distinct
\* candidates with distinct type labels.
C6_DistinctSolutions ==
    SearchReturned =>
        /\ Len(result.solutions) <= 3
        /\ \A i, j \in 1..Len(result.solutions) :
               i # j => result.solutions[i].type # result.solutions[j].type
        /\ Ranked =>
               \A i, j \in 1..Len(result.solutions) :
                   i # j => result.solutions[i].id # result.solutions[j].id

\* Three solutions are returned.
C6_Witness == Ranked /\ Len(result.solutions) = 3

\* The Simple pick is the Precision pick: one object, returned once.
C6_WitnessSame ==
    /\ Ranked
    /\ SimplePick.id = result.solutions[1].id
    /\ Len(allCandidates) >= 2

\* C7: a search call with D <= P_base makes no generateValidRatios and no
\* searchForNBatteries call, leaves the stored validRatios as they were, and
\* returns exactly one solution: type base, no battery, totalPower = P_base,
\* excess = P_base - D, complexity 0.
C7_BaseShortCircuit ==
    [][(pc = "idle" /\ op' = "search" /\ params'.D <= params'.P_base) =>
          /\ pc' = "returned"
          /\ validRatios' = validRatios
          /\ generated' = 0
          /\ invoked' = <<>>
          /\ Len(result'.solutions) = 1
          /\ result'.solutions[1] =
                 [type         |-> "base",
                  batteryCount |-> 0,
                  batteries    |-> <<>>,
                  totalPower   |-> params'.P_base * Scale,
                  excess       |-> (params'.P_base - params'.D) * Scale,
                  complexity   |-> 0]]_vars

\* A search with D = P_base returned the base solution while a catalog
\* generated earlier is stored.
C7_Witness ==
    /\ SearchReturned
    /\ params.D = params.P_base
    /\ result.baseSolution = "true"
    /\ validRatios # <<>>

\* A search with D < P_base returned the base solution.
C7_WitnessBelow ==
    /\ SearchReturned
    /\ params.D < params.P_base
    /\ result.solutions[1].excess = (params.P_base - params.D) * Scale

\* C8: a search with D > P_base that found no candidate returns success =
\* false, a message and an empty list; no result has success = true and an
\* empty list.
C8_FailureValue ==
    /\ (FullSearchReturned /\ allCandidates = <<>>) =>
           /\ result.success = "false"
           /\ result.message # "undefined"
           /\ result.solutions = <<>>
    /\ (SearchReturned /\ result.success = "true") => result.solutions # <<>>

\* A search whose loop ran and found nothing returned the failure.
C8_Witness ==
    /\ FullSearchReturned
    /\ allCandidates = <<>>
    /\ invoked # <<>>
    /\ result.success = "false"

\* A search whose range of battery counts is empty returned the failure.
C8_WitnessEmptyRange ==
    /\ FullSearchReturned
    /\ invoked = <<>>
    /\ result.success = "false"

\* The first and the last battery count of the range a search covers:
\* ceil((D - P_base) / maxBatteryPower) and
\* min(minBatteries + 3, floor(R / minConsume) + 2, 8).
PowersOf(p) == {p.batteries[i].power : i \in 1..Len(p.batteries)}
DurationsOf(p) == {p.batteries[i].duration : i \in 1..Len(p.batteries)}

RangeFirst ==
    LET maxPower == CHOOSE x \in PowersOf(params) :
                        \A y \in PowersOf(params) : y <= x
        needed   == params.D - params.P_base
    IN  CHOOSE k \in 0..needed : k * maxPower >= needed
                                 /\ (k = 0 \/ (k - 1) * maxPower < needed)

RangeLast ==
    LET maxDur == CHOOSE x \in DurationsOf(params) :
                      \A y \in DurationsOf(params) : y <= x
        byCount == RangeFirst + 3
        byFuel  == params.R * maxDur + 2
    IN  IF byCount <= byFuel /\ byCount <= 8 THEN byCount
        ELSE IF byFuel <= 8 THEN byFuel ELSE 8

\* C9: a search with D > P_base calls searchForNBatteries for exactly the
\* battery counts of the range, in ascending order; every solution it returns
\* has its battery count in the range, and at most 8.
C9_SearchedRange ==
    FullSearchReturned =>
        /\ Len(invoked) = (IF RangeLast >= RangeFirst
                           THEN RangeLast - RangeFirst + 1 ELSE 0)
        /\ \A i \in 1..Len(invoked) : invoked[i] = RangeFirst + i - 1
        /\ \A i \in 1..Len(result.solutions) :
               /\ result.solutions[i].batteryCount \in RangeFirst..RangeLast
               /\ result.solutions[i].batteryCount <= 8

\* A search over several battery counts returned a solution with the last
\* count of the range.
C9_Witness ==
    /\ Ranked
    /\ Len(invoked) >= 3
    /\ \E i \in 1..Len(result.solutions) :
           result.solutions[i].batteryCount = RangeLast

\* A search whose range ends at the cap of 8, below both other limits, has
\* called searchForNBatteries up to 8.
C9_WitnessCap ==
    /\ FullSearchReturned
    /\ RangeFirst + 3 > 8
    /\ \A i \in 1..Len(params.batteries) :
           params.R * params.batteries[i].duration + 2 > 8
    /\ invoked # <<>>
    /\ invoked[Len(invoked)] = 8

\* The catalog generateValidRatios(params.maxDepth) has just stored.
CatalogStored ==
    \/ pc = "returned" /\ op = "generate"
    \/ pc = "search"

\* The exponent pairs (a, b) with a + b <= params.maxDepth.
Exponents ==
    {ab \in (0..params.maxDepth) \X (0..params.maxDepth) :
        ab[1] + ab[2] <= params.maxDepth}

\* C10: every ratio of generateValidRatios(maxDepth) has the value
\* 2^-a * 3^-b of some a + b <= maxDepth, each such pair is represented, no
\* value occurs twice and the value 1 occurs exactly once.
C10_Catalog ==
    CatalogStored =>
        /\ \A i \in 1..Len(validRatios) :
               \E ab \in Exponents :
                   validRatios[i].value * Pow(2, ab[1]) * Pow(3, ab[2]) = Scale
        /\ \A ab \in Exponents :
               \E i \in 1..Len(validRatios) :
                   validRatios[i].value * Pow(2, ab[1]) * Pow(3, ab[2]) = Scale
        /\ \A i, j \in 1..Len(validRatios) :
               i # j => validRatios[i].value # validRatios[j].value
        /\ Cardinality({i \in 1..Len(validRatios) : validRatios[i].value = Scale}) = 1

\* A catalog of the largest depth, holding 1, 1/2, 1/3 and 1/6, has been
\* generated by a direct call.
C10_Witness ==
    /\ pc = "returned" /\ op = "generate"
    /\ params.maxDepth = MaxCatalogDepth
    /\ Len(validRatios) >= 6
    /\ \E i \in 1..Len(validRatios) : validRatios[i].value * 6 = Scale
    /\ \E i \in 1..Len(validRatios) : validRatios[i].value * 2 = Scale
    /\ \E i \in 1..Len(validRatios) : validRatios[i].value * 3 = Scale

\* The exponent of the prime p in x >= 1.
RECURSIVE ExpOf(_, _)
ExpOf(p, x) == IF x % p = 0 THEN 1 + ExpOf(p, x \div p) ELSE 0

\* A direct generateValidRatios call has returned.
GenerateReturned == pc = "returned" /\ op = "generate"

\* The ratio r, of value 1 / (2^a * 3^b), has the depth a + b (0 only for the
\* unit ratio) and the fraction "1/(2^a * 3^b)" ("1" for the unit ratio).
WellDescribed(r) ==
    /\ r.depth = ExpOf(2, r.den) + ExpOf(3, r.den)
    /\ r.depth # Infinity
    /\ r.depth = 0 <=> r.den = 1
    /\ r.fraction = r.den
    /\ r.fraction # 0

\* C11 as claimed: for every maxDepth, every ratio of
\* generateValidRatios(maxDepth) of exponents (a, b) has the depth a + b and
\* the fraction 1/(2^a * 3^b); none has the depth Infinity or the decimal
\* fallback.
C11_EveryDepth ==
    GenerateReturned =>
        \A i \in 1..Len(validRatios) : WellDescribed(validRatios[i])

\* C11 as amended: the same for every maxDepth from 0 to 10.
C11_DepthUpTo10 ==
    (GenerateReturned /\ params.maxDepth <= SearchExp) =>
        \A i \in 1..Len(validRatios) : WellDescribed(validRatios[i])

\* The catalog of maxDepth 10 is stored, with 2^-10 and 3^-10 of depth 10.
C11_Witness ==
    /\ GenerateReturned
    /\ params.maxDepth = SearchExp
    /\ \E i \in 1..Len(validRatios) :
           validRatios[i].den = Pow(2, SearchExp) /\ validRatios[i].depth = SearchExp
    /\ \E i \in 1..Len(validRatios) :
           validRatios[i].den = Pow(3, SearchExp) /\ validRatios[i].depth = SearchExp

\* The nodes of a tree, depth first.
RECURSIVE NodesOf(_)
NodesOf(node) ==
    <<node>> \o Concat([i \in 1..Len(node.children) |-> NodesOf(node.children[i])])

\* The nodes of a type.
NodesOfType(tree, type) == SelectSeq(NodesOf(tree), LAMBDA x : x.type = type)

\* The number of batteries of the solution handed over that are assigned the
\* fraction f, and the number of battery leaves annotated with it.
AssignedCount(f) ==
    Cardinality({i \in 1..Len(callArg.batteries) :
                    callArg.batteries[i].ratio.fraction = f})

LeafCount(tree, f) ==
    LET leaves == NodesOfType(tree, "battery")
    IN  Cardinality({i \in 1..Len(leaves) : leaves[i].ratio = f})

VisualizeReturned == pc = "returned" /\ op = "visualize"

\* C12: the tree built for a solution of k >= 1 batteries has exactly k
\* battery leaves, annotated with the fractions of the solution's assignments
\* (each as often as it is assigned); every splitter node has as many
\* children as its declared outlets, and 2 or 3 outlets.
C12_TreeRoundTrip ==
    (VisualizeReturned /\ callArg.batteryCount >= 1) =>
        LET leaves    == NodesOfType(callResult, "battery")
            splitters == NodesOfType(callResult, "splitter")
        IN  /\ Len(leaves) = callArg.batteryCount
            /\ \A i \in 1..Len(leaves) :
                   LeafCount(callResult, leaves[i].ratio)
                       = AssignedCount(leaves[i].ratio)
            /\ \A i \in 1..Len(splitters) :
                   /\ Len(splitters[i].children) = splitters[i].outlets
                   /\ splitters[i].outlets \in {2, 3}

\* The tree of a solution of three batteries (four nodes to group: a group
\* of three and a single node) with a battery under two splitters of its own.
C12_Witness ==
    /\ VisualizeReturned
    /\ callArg.batteryCount = 3
    /\ \E i \in 1..3 : callArg.batteries[i].ratio.depth >= 3
    /\ Len(NodesOfType(callResult, "splitter")) >= 4

\* The tree of a solution of eight batteries.
C12_WitnessEight ==
    /\ VisualizeReturned
    /\ callArg.batteryCount = MaxBatteries
    /\ Len(NodesOfType(callResult, "battery")) = MaxBatteries

\* The battery leaves of a tree, depth first, each with the product of the
\* outlets of the splitters above it: share is the denominator of the part
\* of the flow that reaches the leaf when the flow above node is 1 / above.
RECURSIVE BatteryPaths(_, _)
BatteryPaths(node, above) ==
    IF node.type = "battery" THEN <<[ratio |-> node.ratio, share |-> above]>>
    ELSE Concat([i \in 1..Len(node.children) |->
                    BatteryPaths(node.children[i],
                                 IF node.type = "splitter"
                                 THEN above * node.outlets ELSE above)])

NetworkReturned == pc = "returned" /\ op = "network"

\* C13: in the network described for a solution of 1 to 8 batteries, the
\* batteries appear in the order of the solution, and the product of the
\* outlet shares on the way to each battery is the ratio assigned to it.
C13_RealizesRatios ==
    (NetworkReturned /\ callArg.batteryCount >= 1) =>
        LET paths == BatteryPaths(callResult, 1)
        IN  /\ Len(paths) = callArg.batteryCount
            /\ \A i \in 1..Len(paths) :
                   /\ paths[i].ratio = callArg.batteries[i].ratio.fraction
                   /\ paths[i].share = callArg.batteries[i].ratio.den

BranchReturned == pc = "returned" /\ op = "branch"

\* The outlets of the splitters met from a node down its first children.
RECURSIVE Spine(_)
Spine(node) ==
    IF node.type = "splitter" THEN <<node.outlets>> \o Spine(node.children[1])
    ELSE <<>>

\* C20: the branch built for a ratio 2^-a * 3^-b, a and b in 0..10, is b
\* three-outlet splitters followed by a two-outlet splitters; each leads on
\* by one outlet and to return leaves by its others (2b + a return leaves in
\* all), and the branch ends in the one battery leaf, which carries the
\* fraction of the ratio.
C20_BranchShape ==
    BranchReturned =>
        LET a == ExpOf(2, callArg.den)
            b == ExpOf(3, callArg.den)
            splitters == NodesOfType(callResult, "splitter")
            leaves == NodesOfType(callResult, "battery")
            paths == BatteryPaths(callResult, 1)
        IN  /\ Spine(callResult) = [i \in 1..b |-> 3] \o [i \in 1..a |-> 2]
            /\ Len(splitters) = a + b
            /\ \A i \in 1..Len(splitters) :
                   /\ Len(splitters[i].children) = splitters[i].outlets
                   /\ splitters[i].children[1].type \in {"splitter", "battery"}
                   /\ \A j \in 2..splitters[i].outlets :
                          splitters[i].children[j] = ReturnLeaf
            /\ Len(NodesOfType(callResult, "return")) = 2 * b + a
            /\ Len(leaves) = 1
            /\ \A i \in 1..Len(leaves) : leaves[i].ratio = callArg.den
            /\ \A i \in 1..Len(paths) : paths[i].share = callArg.den

\* The branch of 2^-10 * 3^-10, of twenty stages, has been built.
C20_Witness ==
    /\ BranchReturned
    /\ callArg.den = Den(SearchExp, SearchExp)
    /\ Len(Spine(callResult)) = 2 * SearchExp

\* The branch of the unit ratio: the battery leaf alone.
C20_WitnessUnit ==
    /\ BranchReturned
    /\ callArg.den = 1
    /\ callResult = BatteryLeaf(1)

\* The search on the inputs of a documented scenario has returned.
ScenarioReturned(D) == SearchReturned /\ params = Scenario(D)

\* The denominators of the ratios of a solution, in order.
RatioDens(sol) ==
    [i \in 1..Len(sol.batteries) |-> Scale \div sol.batteries[i].ratio.value]

\* sol is within 1 W of no excess.
NoExcess(sol) == sol.excess <= Scale /\ 0 - sol.excess <= Scale

\* C14 as claimed: for D = 1100, P_base = 0, one battery type of 1100 W and
\* consume 0.025, R = 1 and maxDepth = 5, a solution of one battery at the
\* ratio 1 with an excess of about 0 is returned.
C14_OneBatteryAtRatioOne ==
    ScenarioReturned(1100) =>
        \E i \in 1..Len(result.solutions) :
            /\ result.solutions[i].batteryCount = 1
            /\ RatioDens(result.solutions[i]) = <<1>>
            /\ NoExcess(result.solutions[i])

\* C14 as amended: for these inputs the search succeeds, no candidate has
\* one battery or uses the ratio 1, and the first (Precision) solution has
\* three or four batteries and the least excess there is, 7700/243 W (about
\* 31.69 W).  Two candidates have that excess exactly, of the ratios 1/81,
\* 1/108, 1/243 and 1/108, 1/162, 1/162, 1/243; which of them the sort on
\* doubles puts first depends on rounding, the exact sort puts the first.
C14_ThreeBatteries ==
    ScenarioReturned(1100) =>
        /\ result.success = "true"
        /\ \A i \in 1..Len(allCandidates) :
               /\ allCandidates[i].batteryCount > 1
               /\ \A j \in 1..Len(allCandidates[i].batteries) :
                      allCandidates[i].batteries[j].ratio.value # Scale
               /\ allCandidates[i].excess >= 7700 * (Scale \div 243)
               /\ allCandidates[i].excess = 7700 * (Scale \div 243) =>
                      RatioDens(allCandidates[i])
                          \in {<<81, 108, 243>>, <<108, 162, 162, 243>>}
        /\ result.solutions[1].batteryCount \in {3, 4}
        /\ result.solutions[1].excess = 7700 * (Scale \div 243)

\* The search on the inputs of the scenario D = 1100 has returned solutions.
C14_Witness ==
    /\ ScenarioReturned(1100)
    /\ Len(invoked) = 4
    /\ Len(result.solutions) >= 1

\* C15 as claimed: for D = 550 and the same other inputs, a solution that
\* uses the ratio 1/2 at a duty cycle of about 1 with an excess of about 0 is
\* returned.
C15_HalfRatio ==
    ScenarioReturned(550) =>
        \E i \in 1..Len(result.solutions) :
            /\ \E j \in 1..Len(result.solutions[i].batteries) :
                   /\ result.solutions[i].batteries[j].ratio.value * 2 = Scale
                   /\ result.solutions[i].batteries[j].dutyCycle * 100 >= Scale * 99
            /\ NoExcess(result.solutions[i])

\* C15 as amended: for these inputs the search succeeds, no candidate uses
\* the ratio 1/2, and the first (Precision) solution has two batteries at the
\* ratios 1/108 and 1/243, at the duty cycles 10/27 and 40/243, with an
\* excess of 9350/243 W (about 38.48 W).
C15_TwoBatteries ==
    ScenarioReturned(550) =>
        /\ result.success = "true"
        /\ \A i \in 1..Len(allCandidates) :
               \A j \in 1..Len(allCandidates[i].batteries) :
                   allCandidates[i].batteries[j].ratio.value * 2 # Scale
        /\ result.solutions[1].batteryCount = 2
        /\ RatioDens(result.solutions[1]) = <<108, 243>>
        /\ result.solutions[1].batteries[1].dutyCycle * 27 = 10 * Scale
        /\ result.solutions[1].batteries[2].dutyCycle * 243 = 40 * Scale
        /\ result.solutions[1].excess * 243 = 9350 * Scale

\* The search on the inputs of the scenario D = 550 has returned solutions,
\* one of them of a single battery.
C15_Witness ==
    /\ ScenarioReturned(550)
    /\ Len(invoked) = 4
    /\ \E i \in 1..Len(result.solutions) : result.solutions[i].batteryCount = 1

\* What searchOptimalCombination(p) returns on an instance that stores no
\* catalog, by lines 408-520 from p alone.
FreshResult(p) ==
    LET Only(S) == CHOOSE x \in S : TRUE
        RECURSIVE found(_, _)
        found(k, catalog) ==
            IF LoopContinues(k, p)
            THEN searchForNBatteries(k, p, catalog) \o found(k + 1, catalog)
            ELSE <<>>
        ranked(all) ==
            IF Len(all) = 0 THEN FailureResult ELSE SuccessResult(all, p.D)
        merged(catalog) ==
            Only({Merge(<<>>, all) : all \in {found(MinBatteries(p), catalog)}})
        search(catalog) ==
            Only({ranked(all) : all \in {merged(catalog)}})
    IN  IF NeedsNoBattery(p) THEN BaseResult(p)
        ELSE Only({search(catalog) : catalog \in {generateValidRatios(p.maxDepth)}})

\* C16: what searchOptimalCombination returns is determined by its
\* parameters alone: whatever calls came before and whatever catalog they
\* left stored, the result (the solutions with their types, battery counts,
\* ratios, battery types, powers and excess, in order) is the one a fresh
\* instance returns for the same parameters.
C16_PureFunction ==
    SearchReturned => result = FreshResult(params)

\* A search has returned solutions after replacing a catalog that an earlier
\* call with another maxDepth had stored.
C16_Witness ==
    /\ SearchReturned
    /\ replaced
    /\ result.success = "true"
    /\ Len(result.solutions) >= 2

\* C17 as claimed: every result carries a boolean success field, true
\* whenever a non-empty solution list is returned (the base case D <= P_base
\* included) and false with a message otherwise.
C17_SuccessAlways ==
    SearchReturned =>
        /\ result.success \in {"true", "false"}
        /\ Len(result.solutions) > 0 => result.success = "true"
        /\ Len(result.solutions) = 0 =>
               result.success = "false" /\ result.message # "undefined"

\* C17 as amended: a result of the loop (D > P_base) has success = true and
\* no baseSolution field when it returns solutions, and success = false, a
\* message and no solution otherwise; the result of the base case D <= P_base
\* has no success field: it has baseSolution = true and the one base solution.
C17_SuccessOrBase ==
    SearchReturned =>
        IF params.D <= params.P_base
        THEN /\ result.success = "undefined"
             /\ result.baseSolution = "true"
             /\ Len(result.solutions) = 1
             /\ result.solutions[1].type = "base"
        ELSE /\ result.success \in {"true", "false"}
             /\ result.baseSolution = "undefined"
             /\ result.success = "true" <=> Len(result.solutions) > 0
             /\ result.success = "false" <=> result.message # "undefined"

\* A base case has returned: solutions, and no success field.
C17_Witness ==
    /\ SearchReturned
    /\ params.D <= params.P_base
    /\ Len(result.solutions) = 1
    /\ result.success = "undefined"

\* A search through the loop has returned a failure.
C17_WitnessFailure ==
    /\ SearchReturned
    /\ params.D > params.P_base
    /\ result.success = "false"
    /\ result.message # "undefined"

\* A searchForNBatteries call has been made; LatestCount is its n.
CallMade == Len(invoked) > 0
LatestCount == invoked[Len(invoked)]

\* The ratio exceeds the largest full-load threshold, the largest consume / R
\* over the battery types of the call, plus 0.0001.
AboveThreshold(r) ==
    LET shortest == SetMin({params.batteries[i].duration :
                               i \in 1..Len(params.batteries)})
    IN  /\ params.R > 0
        /\ r.value * shortest * params.R
               > (Scale * (10000 + shortest * params.R)) \div 10000

\* Every ratio of the catalog exceeds the threshold.
NoneUsable == \A i \in 1..Len(validRatios) : AboveThreshold(validRatios[i])

\* C18: when every catalog ratio exceeds the largest full-load threshold
\* (plus 0.0001), searchForNBatteries returns an empty candidate list for
\* every n and hands nothing to findBestVariableAssignment.
C18_NoUsableRatio ==
    (CallMade /\ NoneUsable) =>
        /\ handed = <<>>
        /\ allCandidates = <<>>
        /\ op = "searchN" => callResult = <<>>

\* The search has called searchForNBatteries on a catalog without usable ratio.
C18_Witness ==
    /\ CallMade
    /\ op = "search"
    /\ validRatios # <<>>
    /\ NoneUsable
    /\ LatestCount >= 1

\* A client has called searchForNBatteries(0, params) on a catalog of several
\* ratios, none usable.
C18_WitnessZero ==
    /\ CallMade
    /\ op = "searchN"
    /\ LatestCount = 0
    /\ Len(validRatios) > 1
    /\ NoneUsable

\* The usable ratios of the latest call, in catalog order.
UsableOfCall == SelectSeq(validRatios, LAMBDA r : ~AboveThreshold(r))

\* The number of multisets of k of the ratios usable[i], usable[i + 1], ...
\* whose values sum to at most budget (over Scale), counted by the number of
\* copies of each ratio.
RECURSIVE MultisetCount(_, _, _, _)
MultisetCount(usable, i, k, budget) ==
    IF k = 0 THEN 1
    ELSE IF i > Len(usable) THEN 0
    ELSE SeqSum([c \in 1..(k + 1) |->
                    IF (c - 1) * usable[i].value <= budget
                    THEN MultisetCount(usable, i + 1, k - (c - 1),
                                       budget - (c - 1) * usable[i].value)
                    ELSE 0])

\* The selection is a multiset of n usable ratios written in catalog order
\* (non-increasing values) whose sum is at most 1 + 1e-10.
ProperSelection(sel) ==
    /\ Len(sel) = LatestCount
    /\ \A j \in 1..Len(sel) :
           /\ \E i \in 1..Len(validRatios) : validRatios[i] = sel[j]
           /\ ~AboveThreshold(sel[j])
    /\ \A j \in 1..(Len(sel) - 1) : sel[j].value >= sel[j + 1].value
    /\ ~ExceedsOne(RatioSum(sel))

\* Every selection handed is a proper one and no two are equal, so none is a
\* permutation of another.
HandedProperOnce ==
    /\ \A i \in 1..Len(handed) : ProperSelection(handed[i])
    /\ Cardinality(Range(handed)) = Len(handed)

TreeReturned == pc = "returned" /\ op = "tree"

\* The fractions of the battery lines of a described network, in order.
BatteryLines(tree) ==
    LET leaves == NodesOfType(tree, "battery")
    IN  [i \in 1..Len(leaves) |-> leaves[i].ratio]

\* The fractions of the ratios from position first to position last.
FractionsOf(ratios, first, last) ==
    [i \in 1..(last - first + 1) |-> ratios[first + i - 1].fraction]

\* C21: for more than 3 ratios, buildNetworkTree describes one splitter of
\* exactly 3 outlets: the ratios are cut into consecutive groups of
\* ceil(n/3) (the last one what remains), at most 3 groups, outlet g leads
\* to the network of group g and the outlets left over to the return flow.
\* For every n >= 0 the call returns, and the battery lines of the result
\* are the ratios of the input, each once, in input order.
C21_GroupsOfThird ==
    TreeReturned =>
        LET count    == Len(callArg)
            perGroup == (count + 2) \div 3
            groups   == (count + perGroup - 1) \div perGroup
        IN  /\ BatteryLines(callResult) = FractionsOf(callArg, 1, count)
            /\ count > 3 =>
                   /\ callResult.type = "splitter"
                   /\ callResult.outlets = 3
                   /\ Len(callResult.children) = 3
                   /\ groups <= 3
                   /\ \A g \in 1..3 :
                          IF g <= groups
                          THEN BatteryLines(callResult.children[g])
                                   = FractionsOf(callArg, (g - 1) * perGroup + 1,
                                                 IF g * perGroup < count
                                                 THEN g * perGroup ELSE count)
                          ELSE callResult.children[g] = ReturnLeaf

\* A call for four ratios has returned: two groups of two and a return outlet.
C21_Witness ==
    /\ TreeReturned
    /\ Len(callArg) = 4
    /\ callResult.children[3] = ReturnLeaf
    /\ Len(BatteryLines(callResult.children[2])) = 2

\* A call for ten ratios has returned: its first group, of four ratios, is
\* grouped again.
C21_WitnessNested ==
    /\ TreeReturned
    /\ Len(callArg) = MaxTreeRatios
    /\ Len(BatteryLines(callResult.children[1])) = 4
    /\ callResult.children[1].children[3] = ReturnLeaf

\* A call for no ratio has returned the return flow.
C21_WitnessEmpty ==
    /\ TreeReturned
    /\ Len(callArg) = 0
    /\ callResult = ReturnLeaf

DisplayReturned == pc = "returned" /\ op = "display"

\* The outlet counts of the splitters of a tree, and the types of its
\* leaves, both in outlet order (depth first).
SplitterOutlets(tree) ==
    LET splitters == NodesOfType(tree, "splitter")
    IN  [i \in 1..Len(splitters) |-> splitters[i].outlets]

LeafTypes(tree) ==
    LET leaves == SelectSeq(NodesOf(tree),
                            LAMBDA x : x.type \in {"battery", "return"})
    IN  [i \in 1..Len(leaves) |-> leaves[i].type]

\* C22: for a solution of 1 to 8 batteries, the network text and the tree
\* drawn have the same splitter stages with the same outlet counts, and the
\* same battery and return leaves in the same outlet order.
C22_TraceMatchesTree ==
    (DisplayReturned /\ callArg.batteryCount \in 1..8) =>
        /\ SplitterOutlets(callResult.network) = SplitterOutlets(callResult.tree)
        /\ LeafTypes(callResult.network) = LeafTypes(callResult.tree)

\* C25: a search with D > P_base that succeeds returns exactly one solution
\* labelled "precision"; it is the first of the list and no candidate has a
\* smaller excess.
C25_OnePrecisionFirst ==
    Ranked =>
        /\ Cardinality({i \in 1..Len(result.solutions) :
                           result.solutions[i].type = "precision"}) = 1
        /\ result.solutions[1].type = "precision"
        /\ \A i \in 1..Len(allCandidates) :
               result.solutions[1].excess <= allCandidates[i].excess

\* ---------------------------------------------------- the page
\* The events of the page, from the catalog as first loaded. The page runs
\* calculate() once when it loads (line 324), on the values its form starts
\* with: that is a Calculate step here.
\* Catalog entries kept on the page at most.
MaxCatalog == 3
\* The last reading of Date.now().
MaxClock == 3

\* What the number fields can hold, and the number each text reads as.
TextValue ==
    ("-5" :> -5) @@ ("0" :> 0) @@ ("1" :> 1) @@ ("550" :> 550)
        @@ ("600" :> 600) @@ ("5000" :> 5000)

NaN == [nan |-> TRUE, v |-> 0]
Num(v) == [nan |-> FALSE, v |-> v]

\* parseFloat(text) and parseInt(text, 10) of a field: the number a text of
\* digits reads as, NaN for the empty field and for other text.
parseFloat(text) ==
    IF text \in DOMAIN TextValue THEN Num(TextValue[text]) ELSE NaN

parseInt(text) ==
    IF text \in DOMAIN TextValue THEN Num(TextValue[text]) ELSE NaN

isNaN(x) == x.nan

\* name.trim() of the name field.
trim(text) == IF text = " " THEN "" ELSE text

\* Line 36: what addBattery refuses.
addRefused(name, power, duration) ==
    \/ name = ""
    \/ isNaN(power)
    \/ isNaN(duration)
    \/ power.v <= 0
    \/ duration.v <= 0

\* What the add form is filled with: name, power, duration.
AddForms ==
    {<<"B", "600", "1">>, <<" ", "600", "1">>, <<"B", "", "1">>,
     <<"B", "0", "1">>, <<"B", "600", "-5">>}

\* addBattery(): lines 29-61; now is what Date.now() returns, never less
\* than its latest reading.
AddBattery(form, now) ==
    LET name == trim(form[1])
        power == parseFloat(form[2])
        duration == parseFloat(form[3])
        refused == addRefused(name, power, duration)
    IN  /\ pc = "idle"
        /\ now >= clock
        /\ refused \/ Len(batteries) < MaxCatalog
        /\ batteries' =
              IF refused THEN batteries
              ELSE Append(batteries,
                          [id |-> now, name |-> name, power |-> power.v,
                           consume |-> <<1, duration.v>>,
                           duration |-> duration.v, selected |-> TRUE])
        /\ clock' = IF refused THEN clock ELSE now
        /\ event' = [name |-> "add", texts |-> form, id |-> 0,
                     acted |-> ~refused, params |-> NoParams]
        /\ UNCHANGED <<currentSolutions, activeSolutionIndex,
                       networkShown, tabsShown, drawn, failed>>
        /\ UNCHANGED <<validRatios, calls>>

\* Line 64: removeBattery refuses to remove from a catalog this short.
removeRefused(list) == Len(list) <= 1

\* removeBattery(id): lines 63-71; id is the id of a listed entry.
RemoveBattery(id) ==
    /\ pc = "idle"
    /\ \E i \in 1..Len(batteries) : batteries[i].id = id
    /\ batteries' =
          IF removeRefused(batteries) THEN batteries
          ELSE SelectSeq(batteries, LAMBDA b : b.id # id)
    /\ event' = [name |-> "remove", texts |-> <<>>, id |-> 0,
                 acted |-> ~removeRefused(batteries), params |-> NoParams]
    /\ UNCHANGED <<clock, currentSolutions, activeSolutionIndex,
                   networkShown, tabsShown, drawn, failed>>
    /\ UNCHANGED <<validRatios, calls>>

\* batteries.find(b => b.id === id): the first entry of that id.
find(list, id) ==
    SetMin({i \in 1..Len(list) : list[i].id = id})

\* toggleBattery(id): lines 73-79; id is the id of a listed entry.
ToggleBattery(id) ==
    /\ pc = "idle"
    /\ \E i \in 1..Len(batteries) : batteries[i].id = id
    /\ batteries' =
          [batteries EXCEPT ![find(batteries, id)].selected = ~@]
    /\ event' = [name |-> "toggle", texts |-> <<>>, id |-> 0,
                 acted |-> TRUE, params |-> NoParams]
    /\ UNCHANGED <<clock, currentSolutions, activeSolutionIndex,
                   networkShown, tabsShown, drawn, failed>>
    /\ UNCHANGED <<validRatios, calls>>

\* Line 117: the battery types handed to the search.
selectedBatteries(list) == SelectSeq(list, LAMBDA b : b.selected)

\* Line 135: what calculate refuses among the four numbers.
invalidNaNOnly(x) == isNaN(x)

invalid(x) == isNaN(x) \/ x.v < 0

\* What the four fields hold: D, P_base, R, maxDepth.
CalculateForms ==
    {<<"550", "0", "1", "1">>, <<"550", "600", "1", "0">>,
     <<"5000", "0", "1", "0">>, <<"-5", "0", "1", "0">>,
     <<"550", "0", "", "0">>}

\* calculate(): lines 116-153, with renderSolutionTabs (155-179),
\* displaySolution (200-206) and displayNetwork (296-310).
Calculate(form) ==
    LET chosen == selectedBatteries(batteries)
        D == parseFloat(form[1])
        P_base == parseFloat(form[2])
        R == parseFloat(form[3])
        maxDepth == parseInt(form[4])
        refused ==
            \/ Len(chosen) = 0
            \/ invalid(D) \/ invalid(P_base) \/ invalid(R) \/ invalid(maxDepth)
        p == [D |-> D.v, P_base |-> P_base.v, batteries |-> chosen,
              R |-> R.v, maxDepth |-> maxDepth.v]
    IN  /\ pc = "idle"
        /\ IF refused
           THEN /\ event' = [name |-> "calculate", texts |-> form, id |-> 0,
                             acted |-> FALSE, params |-> NoParams]
                /\ UNCHANGED <<validRatios, currentSolutions,
                               activeSolutionIndex, networkShown, tabsShown,
                               drawn, failed>>
           ELSE \E found \in {FreshResult(p)} :
                /\ event' = [name |-> "calculate", texts |-> form, id |-> 0,
                             acted |-> TRUE, params |-> p]
                /\ validRatios' =
                      IF NeedsNoBattery(p) THEN validRatios
                      ELSE catalogForSearch(validRatios, p.maxDepth)
                /\ IF found.success = "true" \/ found.baseSolution = "true"
                   THEN /\ currentSolutions' = found.solutions
                        /\ activeSolutionIndex' = 0
                        /\ tabsShown' = (Len(found.solutions) > 1)
                        /\ networkShown' = TRUE
                        /\ drawn' = [by |-> "calculate",
                                     solution |-> found.solutions[1]]
                        /\ failed' = FALSE
                   ELSE /\ tabsShown' = FALSE
                        /\ failed' = TRUE
                        /\ UNCHANGED <<currentSolutions, activeSolutionIndex,
                                       networkShown, drawn>>
        /\ UNCHANGED <<batteries, clock>>
        /\ UNCHANGED calls

\* switchSolution(index): lines 181-198, the click on a tab; the tabs shown
\* are those of currentSolutions.
SwitchSolution(index) ==
    /\ pc = "idle"
    /\ tabsShown
    /\ index \in 0..(Len(currentSolutions) - 1)
    /\ activeSolutionIndex' = index
    /\ networkShown' = TRUE
    /\ drawn' = [by |-> "switch", solution |-> currentSolutions[index + 1]]
    /\ event' = [name |-> "switch", texts |-> <<>>, id |-> index,
                 acted |-> TRUE, params |-> NoParams]
    /\ UNCHANGED <<batteries, clock, currentSolutions, tabsShown, failed>>
    /\ UNCHANGED <<validRatios, calls>>

\* Line 315: when the resize handler draws again.
redraws(shown, solutions) ==
    shown /\ Len(solutions) > 0

\* The resize handler, 250 ms after the last resize: lines 312-321.
Resize ==
    /\ pc = "idle"
    /\ drawn' =
          IF redraws(networkShown, currentSolutions)
          THEN [by |-> "resize",
                solution |-> currentSolutions[activeSolutionIndex + 1]]
          ELSE drawn
    /\ event' = [name |-> "resize", texts |-> <<>>, id |-> 0,
                 acted |-> redraws(networkShown, currentSolutions),
                 params |-> NoParams]
    /\ UNCHANGED <<batteries, clock, currentSolutions, activeSolutionIndex,
                   networkShown, tabsShown, failed>>
    /\ UNCHANGED <<validRatios, calls>>

\* The catalog form and list, from the default catalog.
NextCatalog ==
    \/ \E form \in AddForms, now \in 2..MaxClock : AddBattery(form, now)
    \/ \E id \in 1..MaxClock : RemoveBattery(id)
    \/ \E id \in 1..MaxClock : ToggleBattery(id)

CatalogSpec == Init /\ [][NextCatalog]_vars

\* The catalogs the page finds saved: the default one, and the default one
\* with a battery type added to it.
SavedCatalogs ==
    {defaultBatteries,
     Append(defaultBatteries,
            [id |-> 2, name |-> "B", power |-> 600, consume |-> <<1, 1>>,
             duration |-> 1, selected |-> TRUE])}

InitSaved == \E saved \in SavedCatalogs : Loaded(saved)

\* The calculation and its display, on a saved catalog.
NextPage ==
    \/ \E id \in 1..MaxClock : ToggleBattery(id)
    \/ \E form \in CalculateForms : Calculate(form)
    \/ \E index \in 0..2 : SwitchSolution(index)
    \/ Resize

PageSpec == InitSaved /\ [][NextPage]_vars

\* ------------------------------------------------ claims on the page
\* The latest event is a calculate, and whether it called the search.
Calculated == event.name = "calculate"
SearchInvoked == Calculated /\ event.acted

\* The four number fields hold numbers that are not negative.
FieldsValid(texts) ==
    \A i \in 1..4 :
        texts[i] \in DOMAIN TextValue /\ TextValue[texts[i]] >= 0

SomeSelected(list) == \E i \in 1..Len(list) : list[i].selected

\* The search was called on the selected entries and on the numbers of the
\* fields, none negative.
CalledOnValidInput ==
    /\ Len(event.params.batteries) > 0
    /\ \A i \in 1..Len(event.params.batteries) :
           event.params.batteries[i].selected
    /\ event.params.batteries =
           SelectSeq(batteries, LAMBDA b : b.selected = TRUE)
    /\ event.params.D >= 0 /\ event.params.P_base >= 0
    /\ event.params.R >= 0 /\ event.params.maxDepth >= 0
    /\ <<event.params.D, event.params.P_base, event.params.R,
         event.params.maxDepth>> = [i \in 1..4 |-> TextValue[event.texts[i]]]

\* C23: calculate calls searchOptimalCombination only with a non-empty list
\* of selected batteries and with D, P_base, R and maxDepth that are numbers
\* >= 0; with no battery selected, or a field that is not a number or is
\* negative, it does not call the search and leaves currentSolutions and
\* activeSolutionIndex as they were.
C23_SearchOnlyOnValidInput ==
    /\ [](Calculated =>
            /\ event.acted =>
                  /\ SomeSelected(batteries) /\ FieldsValid(event.texts)
                  /\ CalledOnValidInput
            /\ (~SomeSelected(batteries) \/ ~FieldsValid(event.texts)) =>
                  ~event.acted)
    /\ [][(event'.name = "calculate"
             /\ (~SomeSelected(batteries') \/ ~FieldsValid(event'.texts))) =>
              /\ currentSolutions' = currentSolutions
              /\ activeSolutionIndex' = activeSolutionIndex]_vars

\* A calculate that was refused while the second solution of an earlier
\* calculation was shown.
C23_Witness ==
    /\ Calculated /\ ~event.acted
    /\ Len(currentSolutions) > 1 /\ activeSolutionIndex = 1

\* A calculate that called the search, with two batteries selected.
C23_WitnessCalled ==
    SearchInvoked /\ Len(event.params.batteries) = 2

\* Every entry has a positive power and duration, and consume = 1 / duration.
EntriesSound ==
    \A i \in 1..Len(batteries) :
        /\ batteries[i].power > 0
        /\ batteries[i].duration > 0
        /\ batteries[i].consume[1] > 0
        /\ batteries[i].consume[2] = batteries[i].consume[1] * batteries[i].duration

\* The add form holds a blank name, or a power or duration that is not a
\* number or is not positive.
FormRejected(texts) ==
    \/ texts[1] \in {"", " "}
    \/ \E i \in 2..3 :
          texts[i] \notin DOMAIN TextValue \/ TextValue[texts[i]] <= 0

\* C24: from the default one-entry catalog, after any addBattery,
\* removeBattery and toggleBattery events the catalog holds at least one
\* battery type and every entry has power > 0, duration > 0 and
\* consume = 1 / duration; a rejected addBattery and a removeBattery on a
\* one-entry catalog leave the catalog unchanged.
C24_CatalogNeverEmpty ==
    /\ [](Len(batteries) >= 1 /\ EntriesSound)
    /\ [][/\ (event'.name = "add" /\ FormRejected(event'.texts)) =>
                batteries' = batteries
          /\ (event'.name = "remove" /\ Len(batteries) = 1) =>
                batteries' = batteries]_vars

\* Two entries added within one millisecond bear the same id, and both
\* have been removed by one click after the default entry was removed.
C24_EmptyCatalog ==
    /\ event.name = "remove" /\ event.acted
    /\ Len(batteries) = 0

\* The parts of C24 other than the catalog never being empty.
C24_AllButNonEmpty ==
    /\ []EntriesSound
    /\ [][/\ (event'.name = "add" /\ FormRejected(event'.texts)) =>
                batteries' = batteries
          /\ (event'.name = "remove" /\ Len(batteries) = 1) =>
                batteries' = batteries]_vars

\* The resize handler has just drawn a solution again.
Redrawn == event.name = "resize" /\ event.acted

\* C26: once the search of a calculate has failed, a resize does not draw
\* again a solution of an earlier calculation, and whenever a resize draws
\* again, activeSolutionIndex is an index of currentSolutions.
C26_NoStaleRedraw ==
    Redrawn =>
        /\ ~failed
        /\ activeSolutionIndex \in 0..(Len(currentSolutions) - 1)

\* A resize drew a network of batteries again after the latest search failed.
C26_StaleNetwork ==
    /\ Redrawn /\ failed
    /\ drawn.by = "resize" /\ drawn.solution.batteryCount > 0

\* The part of C26 on the index.
C26_IndexValid ==
    Redrawn => activeSolutionIndex \in 0..(Len(currentSolutions) - 1)

=============================================================================
